---- MODULE Spec2Model ----
(***************************************************************************)
(* Payment verification and anti-replay subsystem of the x402 betting MCP  *)
(* server: PaymentService.verifyPayment, BettingToolHandler.handleToolCall,*)
(* the replay cache (MemoryCache / RedisCache), RPCManager (round-robin    *)
(* endpoint selection with a health map) and PaymentMonitor counters.      *)
(*                                                                         *)
(* Decimal amounts (prices, ledger balances) are written as counts of      *)
(* micro-USDC (1 USDC = 1000000) and computed with as the binary64 Numbers *)
(* they denote; times are whole seconds.  An asynchronous call is cut at   *)
(* its awaits, one step for each turn in which it runs: the entry with the *)
(* call of the cache lookup, the reply of the lookup, the start of a       *)
(* schedule() job, the answer of its RPC call (schedule marks the          *)
(* endpoint), the return of the fetch with the age check, the transfer     *)
(* checks with the call of the cache write, the recording with the return  *)
(* of verifyPayment, the tool the handler runs after it, and the envelope  *)
(* the handler returns.  verifyPayment is called by handleToolCall and by  *)
(* direct callers.                                                         *)
(***************************************************************************)
EXTENDS Integers, Sequences, FiniteSets, TLC

\* ------------------------------------------------------------------ bounds
MaxEndpoints == 4        \* largest number of configured RPC endpoints explored
MaxVerifications == 2    \* verifyPayment calls explored per behaviour (monitor counter cap)
MaxQueued == 2           \* schedule() jobs waiting in the limiter at one time
MaxHealthChecks == 1     \* PaymentService.healthCheck calls running at one time
MaxRecorded == 1003      \* recordVerification calls explored on the monitor alone
MaxClosedOps == 1        \* cache operations explored after a disconnect(), or after one
                         \* overtook a clear() in progress
MaxClears == 1           \* clear() calls in progress at one time (DEL not yet sent)
MaxRounds == 2           \* rounds of the health timer running at one time

\* ------------------------------------------------------- program constants
maxTransactionAge == 300 \* seconds
ttl == 3600              \* seconds
retryAttempts == 3
maxConcurrent == 10      \* RPC_MAX_CONCURRENT default
reservoir == 50          \* RPC_RATE_LIMIT default, also the refresh amount
tolerance == 1           \* 0.000001 USDC, in micro-USDC
maxEvents == 1000        \* PaymentMonitor keeps the last 1000 events
SigMinLen == 87
SigMaxLen == 88

Calls == {"c1", "c2"}    \* two logical call paths that may interleave
\* who calls verifyPayment: handleToolCall, or a caller of its own
Callers == {"handler", "direct"}

\* the tool names handleToolCall is called with: the four of executeTool's
\* switch and one it has no case for
KnownTools == {"executeBet", "analyzeMarket", "getOdds", "healthCheck"}
Tools == KnownTools \cup {"unknownTool"}
BetAmounts == {0, 1}     \* params.amount of the tool call (whole USDC)
\* tools and bet called with payments at the tolerance boundary
AmountTools == {"analyzeMarket", "executeBet"}
AmountBets == {8}

NoTool == "none"
RecipientWallet == "recipientWallet"
OtherWallet == "otherWallet"
PayerWallet == "payerWallet"
UsdcMint == "usdcMint"
OtherMint == "otherMint"
Network == "devnet"

\* ------------------------------------------------------------- signatures
\* /^[1-9A-HJ-NP-Za-km-z]{87,88}$/
Base58 ==
  {"1","2","3","4","5","6","7","8","9",
   "A","B","C","D","E","F","G","H","J","K","L","M","N",
   "P","Q","R","S","T","U","V","W","X","Y","Z",
   "a","b","c","d","e","f","g","h","i","j","k",
   "m","n","o","p","q","r","s","t","u","v","w","x","y","z"}

isValidSignatureMut(signature) ==
  /\ Len(signature) <= SigMaxLen
  /\ \A i \in 1..Len(signature) : signature[i] \in Base58

isValidSignature(signature) ==
  /\ Len(signature) >= SigMinLen
  /\ Len(signature) <= SigMaxLen
  /\ \A i \in 1..Len(signature) : signature[i] \in Base58

\* The transaction references used as inputs.  Each name stands for one
\* concrete string, SigString(name).
GoodSigs == {"sPaid", "sWrongRecipient", "sWrongToken", "sNoBlockTime",
             "sUnknown", "sMalformedMeta"}
BadSigs == {"sEmpty", "sShort", "sLong", "sBadChar"}
\* payments one or two micro-USDC short of a price
AmountSigs == {"sShortByOne", "sShortByTwo", "sBetShortByOne"}
Sigs == GoodSigs \cup BadSigs \cup AmountSigs
NoSig == "absent"        \* args.x402_payment_signature is undefined

Fill(n, ch) == [i \in 1..n |-> ch]

SigString(s) ==
  CASE s = "sPaid"           -> Fill(88, "5")
    [] s = "sWrongRecipient" -> Fill(88, "W")
    [] s = "sWrongToken"     -> Fill(87, "T")
    [] s = "sNoBlockTime"    -> Fill(87, "B")
    [] s = "sUnknown"        -> Fill(88, "U")
    [] s = "sMalformedMeta"  -> Fill(87, "M")
    [] s = "sShortByOne"     -> Fill(88, "o")
    [] s = "sShortByTwo"     -> Fill(88, "t")
    [] s = "sBetShortByOne"  -> Fill(87, "b")
    [] s = "sEmpty"          -> << >>
    [] s = "sShort"          -> Fill(86, "5")
    [] s = "sLong"           -> Fill(89, "5")
    [] s = "sBadChar"        -> [i \in 1..88 |-> IF i = 40 THEN "0" ELSE "5"]

\* ------------------------------------------------- Number (IEEE binary64)
\* Amounts are JavaScript Numbers in USDC.  A decimal amount is named by its
\* count of micro-USDC; the Number holding it is [sign, exp, hi, lo], of
\* value sign * m * 2^exp where m is the integer of Precision binary digits
\* (the first one 1) held as its HighDigits upper digits hi and its
\* LowDigits lower digits lo.  Zero has sign 0.
Precision == 53
HighDigits == 26
LowDigits == Precision - HighDigits
MicroPerUnit == 1000000
\* binary digits produced at a time, and how many times, when a decimal is
\* converted: an amount of at least one micro-USDC has its first 1 among
\* the first 20 digits after the point
ChunkDigits == 10
FractionChunks == 8
FractionDigits == ChunkDigits * FractionChunks
WordDigits == 31

FZero == [sign |-> 0, exp |-> 0, hi |-> 0, lo |-> 0]

\* The one element of a singleton.  {F(v) : v \in {e}} computes e once and
\* F on its value, where F(e) would compute e again at each use of the
\* parameter.
The(S) == CHOOSE v \in S : TRUE

Zeros(n) == [i \in 1..n |-> 0]

\* the n binary digits of q < 2^n
ToBits(q, n) == The({[i \in 1..n |-> (v \div 2^(n - i)) % 2] : v \in {q}})

\* the integer with the binary digits b, fewer than WordDigits of them
RECURSIVE FromBits(_)
FromBits(b) ==
  IF Len(b) = 0 THEN 0
  ELSE The({2 * FromBits(SubSeq(v, 1, Len(v) - 1)) + v[Len(v)] : v \in {b}})

\* the Number of mantissa digits b, and the mantissa digits of a Number
Pack(sign, exp, b) ==
  The({[sign |-> sign, exp |-> exp,
        hi |-> FromBits(SubSeq(v, 1, HighDigits)),
        lo |-> FromBits(SubSeq(v, HighDigits + 1, Precision))] : v \in {b}})

Bits(x) ==
  The({ToBits(v.hi, HighDigits) \o ToBits(v.lo, LowDigits) : v \in {x}})

\* without the leading zeros
Strip(b) ==
  LET strip(v) ==
        LET ones == {i \in 1..Len(v) : v[i] = 1}
        IN IF ones = {} THEN << >>
           ELSE SubSeq(v, CHOOSE i \in ones : \A j \in ones : i <= j, Len(v))
  IN The({strip(v) : v \in {b}})

\* binary digits of r / d after the point, r < d, n chunks of them
RECURSIVE FracBits(_, _, _)
FracBits(r, d, n) ==
  IF n = 0 THEN << >>
  ELSE The({ToBits((v * 2^ChunkDigits) \div d, ChunkDigits)
              \o FracBits((v * 2^ChunkDigits) % d, d, n - 1) : v \in {r}})

\* what is left of r / d below those digits
RECURSIVE FracRest(_, _, _)
FracRest(r, d, n) ==
  IF n = 0 THEN r
  ELSE The({FracRest((v * 2^ChunkDigits) % d, d, n - 1) : v \in {r}})

\* b + 1, with the carry out
Increment(b) ==
  LET increment(v) ==
        LET zeros == {i \in 1..Len(v) : v[i] = 0}
        IN IF zeros = {} THEN [bits |-> Zeros(Len(v)), carry |-> 1]
           ELSE The({[bits |-> [i \in 1..Len(v) |->
                                  IF i < p THEN v[i]
                                  ELSE IF i = p THEN 1 ELSE 0],
                      carry |-> 0]
                     : p \in {CHOOSE i \in zeros : \A j \in zeros : j <= i}})
  IN The({increment(v) : v \in {b}})

\* round to nearest, ties to even: the Number of value
\* sign * (m + rest) * 2^exp, m given by digits and 0 <= rest < 1
RoundToNumber(sign, digits, exp, sticky) ==
  LET round(b) ==
        LET n == Len(b)
        IN IF n = 0 THEN FZero
           ELSE IF n <= Precision
           THEN Pack(sign, exp - (Precision - n), b \o Zeros(Precision - n))
           ELSE LET keep == SubSeq(b, 1, Precision)
                    guard == b[Precision + 1]
                    below == sticky \/ \E i \in (Precision + 2)..n : b[i] = 1
                    up == guard = 1 /\ (below \/ b[Precision] = 1)
                    e == exp + (n - Precision)
                IN IF ~up THEN Pack(sign, e, keep)
                   ELSE The({IF inc.carry = 0 THEN Pack(sign, e, inc.bits)
                             ELSE Pack(sign, e + 1,
                                       << 1 >> \o Zeros(Precision - 1))
                             : inc \in {Increment(keep)}})
  IN The({round(b) : b \in {Strip(digits)}})

\* The Number a decimal literal of micro / 1000000 USDC denotes (the value
\* JSON.parse or the compiler gives it), micro >= 0
Number(micro) ==
  The({RoundToNumber(1,
         ToBits(m \div MicroPerUnit, WordDigits)
           \o FracBits(m % MicroPerUnit, MicroPerUnit, FractionChunks),
         0 - FractionDigits,
         FracRest(m % MicroPerUnit, MicroPerUnit, FractionChunks) # 0)
       : m \in {micro}})

\* a < b on digit sequences of equal length
LexLess(a, b) ==
  LET less(u, v) ==
        LET differ == {i \in 1..Len(u) : u[i] # v[i]}
        IN IF differ = {} THEN FALSE
           ELSE \E k \in differ : (\A j \in differ : k <= j) /\ u[k] < v[k]
  IN The({less(u, v) : u \in {a}, v \in {b}})

MagLess(x, y) ==
  IF x.exp # y.exp THEN x.exp < y.exp ELSE LexLess(Bits(x), Bits(y))

\* x < y
FLess(x, y) ==
  LET less(u, v) ==
        IF u.sign # v.sign THEN u.sign < v.sign
        ELSE IF u.sign = 0 THEN FALSE
        ELSE IF u.sign = 1 THEN MagLess(u, v)
        ELSE MagLess(v, u)
  IN The({less(u, v) : u \in {x}, v \in {y}})

\* a - b on two digit sequences of equal length, a >= b: a digit borrows
\* when the digits below it are fewer in a than in b
SubBits(a, b) ==
  LET sub(u, v) ==
        LET n == Len(u)
            borrow(i) == IF LexLess(SubSeq(u, i + 1, n), SubSeq(v, i + 1, n))
                         THEN 1 ELSE 0
        IN [i \in 1..n |-> (u[i] - v[i] - borrow(i) + 2) % 2]
  IN The({sub(u, v) : u \in {a}, v \in {b}})

\* x - y for x >= 0 and y >= 0 (balances, prices and the tolerance)
FSub(x, y) ==
  LET aligned(u, v) ==
        LET e == IF u.exp < v.exp THEN u.exp ELSE v.exp
            n == IF u.exp < v.exp THEN Precision + v.exp - e
                 ELSE Precision + u.exp - e
        IN [exp |-> e,
            x |-> Zeros(n - Precision - (u.exp - e)) \o Bits(u)
                    \o Zeros(u.exp - e),
            y |-> Zeros(n - Precision - (v.exp - e)) \o Bits(v)
                    \o Zeros(v.exp - e)]
      sub(u, v) ==
        IF v.sign = 0 THEN u
        ELSE IF u.sign = 0 THEN [v EXCEPT !.sign = -1]
        ELSE The({IF LexLess(p.x, p.y)
                  THEN RoundToNumber(-1, SubBits(p.y, p.x), p.exp, FALSE)
                  ELSE RoundToNumber(1, SubBits(p.x, p.y), p.exp, FALSE)
                  : p \in {aligned(u, v)}})
  IN The({sub(u, v) : u \in {x}, v \in {y}})

\* a + b on digit sequences of equal length, one digit longer
AddBits(a, b) ==
  LET add(u, v) ==
        LET n == Len(u)
            carry(i) == IF \E j \in (i + 1)..n :
                              /\ u[j] = 1 /\ v[j] = 1
                              /\ \A k \in (i + 1)..(j - 1) : u[k] # v[k]
                        THEN 1 ELSE 0
        IN << carry(0) >> \o [i \in 1..n |-> (u[i] + v[i] + carry(i)) % 2]
  IN The({add(u, v) : u \in {a}, v \in {b}})

\* x + y for x >= 0 and y >= 0 (baseFee + percentageFee)
FAdd(x, y) ==
  LET aligned(u, v) ==
        LET e == IF u.exp < v.exp THEN u.exp ELSE v.exp
            n == IF u.exp < v.exp THEN Precision + v.exp - e
                 ELSE Precision + u.exp - e
        IN [exp |-> e,
            x |-> Zeros(n - Precision - (u.exp - e)) \o Bits(u)
                    \o Zeros(u.exp - e),
            y |-> Zeros(n - Precision - (v.exp - e)) \o Bits(v)
                    \o Zeros(v.exp - e)]
      add(u, v) ==
        IF v.sign = 0 THEN u
        ELSE IF u.sign = 0 THEN v
        ELSE The({RoundToNumber(1, AddBits(p.x, p.y), p.exp, FALSE)
                  : p \in {aligned(u, v)}})
  IN The({add(u, v) : u \in {x}, v \in {y}})

\* The mantissa is multiplied in limbs of LimbDigits binary digits, least
\* significant first, so that no intermediate leaves the 32-bit integers
LimbDigits == 11
LimbCount == 5
Limbs(b) ==
  LET limbs(v) ==
        [k \in 1..LimbCount |->
           FromBits(SubSeq(v, LimbDigits * (LimbCount - k) + 1,
                           LimbDigits * (LimbCount - k + 1)))]
  IN The({limbs(v) : v \in {Zeros(LimbDigits * LimbCount - Len(b)) \o b}})

\* the digits of the number with the limbs raw (each below 2^31) above carry
RECURSIVE Carried(_, _, _)
Carried(raw, k, carry) ==
  IF k > Len(raw) THEN ToBits(carry, LimbDigits)
  ELSE The({Carried(raw, k + 1, t \div 2^LimbDigits)
              \o ToBits(t % 2^LimbDigits, LimbDigits) : t \in {raw[k] + carry}})

MulBits(a, b) ==
  LET mul(u, v) ==
        LET term(i, k) == IF k - i + 1 \in 1..LimbCount
                          THEN u[i] * v[k - i + 1] ELSE 0
        IN Carried([k \in 1..(2 * LimbCount - 1) |->
                      term(1, k) + term(2, k) + term(3, k) + term(4, k)
                        + term(5, k)], 1, 0)
  IN The({mul(u, v) : u \in {Limbs(a)}, v \in {Limbs(b)}})

\* x * y for x >= 0 and y >= 0 (betAmount * 0.02, amount * 1_000_000)
FMul(x, y) ==
  LET mul(u, v) ==
        IF u.sign = 0 \/ v.sign = 0 THEN FZero
        ELSE RoundToNumber(1, MulBits(Bits(u), Bits(v)), u.exp + v.exp, FALSE)
  IN The({mul(u, v) : u \in {x}, v \in {y}})

\* The Number of a whole number n, 0 <= n < 2^31
Whole(n) == RoundToNumber(1, ToBits(n, WordDigits), 0, FALSE)

\* Math.round(x) for 0 <= x < 2^30: the nearest integer, a half goes up
MathRound(x) ==
  LET round(v) ==
        IF v.sign = 0 \/ 0 - v.exp > Precision THEN 0
        ELSE IF 0 - v.exp = Precision THEN 1
        ELSE The({FromBits(SubSeq(b, 1, Precision + v.exp))
                    + b[Precision + v.exp + 1] : b \in {Bits(v)}})
  IN The({round(v) : v \in {x}})

\* ---------------------------------------------------------------- ledger
\* The instants at which something is observed: the block time of the
\* recorded transactions, maxTransactionAge and ttl seconds later, and one
\* second after each of those
Instants == {1000, 1300, 1301, 4600, 4601}
T0 == CHOOSE t \in Instants : \A u \in Instants : t <= u

Missing == -1            \* an absent (undefined / null) number
Bal(idx, mint, owner, amt) ==
  [accountIndex |-> idx, mint |-> mint, owner |-> owner, uiAmount |-> amt]
\* uiAmount = Missing models a balance record without uiTokenAmount
NoTx == [found |-> FALSE, blockTime |-> Missing, hasMeta |-> FALSE,
         preTokenBalances |-> << >>, postTokenBalances |-> << >>]
Tx(bt, pre, post) ==
  [found |-> TRUE, blockTime |-> bt, hasMeta |-> TRUE,
   preTokenBalances |-> pre, postTokenBalances |-> post]

\* What the ledger holds for each reference (getTransaction's answer once
\* the transaction is visible).
Chain(s) ==
  CASE s = "sPaid" ->
         Tx(T0, << Bal(1, UsdcMint, PayerWallet, 500000),
                   Bal(2, UsdcMint, RecipientWallet, 0) >>,
                << Bal(1, UsdcMint, PayerWallet, 400000),
                   Bal(2, UsdcMint, RecipientWallet, 100000) >>)
    [] s = "sWrongRecipient" ->
         Tx(T0, << Bal(1, UsdcMint, PayerWallet, 500000) >>,
                << Bal(1, UsdcMint, PayerWallet, 400000),
                   Bal(2, UsdcMint, OtherWallet, 100000) >>)
    [] s = "sWrongToken" ->
         Tx(T0, << Bal(1, OtherMint, PayerWallet, 500000),
                   Bal(2, OtherMint, RecipientWallet, 0) >>,
                << Bal(1, OtherMint, PayerWallet, 300000),
                   Bal(2, OtherMint, RecipientWallet, 200000) >>)
    [] s = "sNoBlockTime" ->
         Tx(Missing, << Bal(1, UsdcMint, PayerWallet, 500000) >>,
                << Bal(1, UsdcMint, PayerWallet, 300000),
                   Bal(2, UsdcMint, RecipientWallet, 200000) >>)
    [] s = "sMalformedMeta" ->
         Tx(T0, << >>, << Bal(2, UsdcMint, RecipientWallet, Missing) >>)
    [] s = "sShortByOne" ->
         Tx(T0, << Bal(1, UsdcMint, PayerWallet, 500000),
                   Bal(2, UsdcMint, RecipientWallet, 0) >>,
                << Bal(1, UsdcMint, PayerWallet, 450001),
                   Bal(2, UsdcMint, RecipientWallet, 49999) >>)
    [] s = "sShortByTwo" ->
         Tx(T0, << Bal(1, UsdcMint, PayerWallet, 500000),
                   Bal(2, UsdcMint, RecipientWallet, 0) >>,
                << Bal(1, UsdcMint, PayerWallet, 450002),
                   Bal(2, UsdcMint, RecipientWallet, 49998) >>)
    [] s = "sBetShortByOne" ->
         Tx(T0, << Bal(1, UsdcMint, PayerWallet, 500000),
                   Bal(2, UsdcMint, RecipientWallet, 0) >>,
                << Bal(1, UsdcMint, PayerWallet, 240001),
                   Bal(2, UsdcMint, RecipientWallet, 259999) >>)
    [] OTHER -> NoTx

\* ------------------------------------------------------------ exceptions
\* An error message is represented by the set of marker substrings that
\* String.includes can find in it.
NoPayment ==
  [amount |-> 0, recipient |-> "", usdcMint |-> "", network |-> "",
   description |-> ""]
NoDetails ==
  [present |-> FALSE, originalTool |-> NoTool, shortfall |-> FZero,
   payment |-> NoPayment]
PaymentError(code, details) ==
  [kind |-> "PaymentError", code |-> code, message |-> {}, details |-> details]
Error(message) ==
  [kind |-> "Error", code |-> "UNTYPED", message |-> message,
   details |-> NoDetails]
NoError == [kind |-> "none", code |-> "VALID", message |-> {}, details |-> NoDetails]

createInvalidSignatureError ==
  PaymentError("INVALID_SIGNATURE", [NoDetails EXCEPT !.present = TRUE])
createTransactionNotFoundError ==
  PaymentError("TRANSACTION_NOT_FOUND", [NoDetails EXCEPT !.present = TRUE])
\* expected and actual are Numbers
createInsufficientAmountError(expected, actual) ==
  PaymentError("INSUFFICIENT_AMOUNT",
               [NoDetails EXCEPT !.present = TRUE,
                                 !.shortfall = FSub(expected, actual)])
createWrongRecipientError ==
  PaymentError("WRONG_RECIPIENT", [NoDetails EXCEPT !.present = TRUE])
createExpiredPaymentError ==
  PaymentError("EXPIRED_PAYMENT", [NoDetails EXCEPT !.present = TRUE])
createReplayAttackErrorMut(originalTool) ==
  PaymentError("REPLAY_ATTACK", [NoDetails EXCEPT !.present = TRUE])

createReplayAttackError(originalTool) ==
  PaymentError("REPLAY_ATTACK",
               [NoDetails EXCEPT !.present = TRUE, !.originalTool = originalTool])
createRPCError ==
  PaymentError("RPC_ERROR", [NoDetails EXCEPT !.present = TRUE])
createPaymentRequiredErrorMut(paymentReq) ==
  PaymentError("PAYMENT_REQUIRED", [NoDetails EXCEPT !.present = TRUE])

createPaymentRequiredError(paymentReq) ==
  PaymentError("PAYMENT_REQUIRED",
               [NoDetails EXCEPT !.present = TRUE, !.payment = paymentReq])

\* --------------------------------------------------------------- pricing
\* Math.round(amount * 1_000_000) / 1_000_000 of a Number amount >= 0.  The
\* result is given by its count of micro-USDC n, the integer Math.round
\* returns: the division that follows is correctly rounded, so the price is
\* Number(n), the value of the decimal literal n / 1000000
roundToMicroUSDCMut(amount) ==
  The({MathRound(v) - (IF MathRound(v) > 0 /\ FLess(v, Whole(MathRound(v)))
                       THEN 1 ELSE 0)
       : v \in {FMul(amount, Whole(MicroPerUnit))}})
roundToMicroUSDC(amount) == MathRound(FMul(amount, Whole(MicroPerUnit)))

\* The params argument of the pricing functions: undefined, null, or an
\* object whose amount is absent (Missing) or a count of micro-USDC
NoParams == [kind |-> "undefined", amount |-> Missing]
NullParams == [kind |-> "null", amount |-> Missing]
Args(amount) == [kind |-> "object", amount |-> amount]
\* the arguments of a tool call with a bet of betAmount whole USDC
BetArgs(betAmount) == Args(betAmount * MicroPerUnit)

Priced(amount) == [threw |-> FALSE, error |-> "none", amount |-> amount]
TypeError == [threw |-> TRUE, error |-> "TypeError", amount |-> Missing]

\* params.amount || 0 has no value on undefined or null: reading the
\* property throws a TypeError
calculatePrice(toolName, params) ==
  CASE toolName = "executeBet" ->
         IF params.kind # "object" THEN TypeError
         ELSE Priced(roundToMicroUSDC(
                FAdd(Number(100000),
                     FMul(IF params.amount = Missing THEN FZero
                          ELSE Number(params.amount),
                          Number(20000)))))
    [] toolName = "analyzeMarket" -> Priced(50000)
    [] toolName = "getOdds"       -> Priced(20000)
    [] OTHER                      -> Priced(10000)

NoRequirement ==
  [amount |-> Missing, recipient |-> "none", usdcMint |-> "none",
   network |-> "none", description |-> "none"]
getPaymentRequirement(toolName, params) ==
  LET requirement(price) ==
        [threw |-> price.threw, error |-> price.error,
         value |-> IF price.threw THEN NoRequirement
                   ELSE [amount |-> price.amount,
                         recipient |-> RecipientWallet, usdcMint |-> UsdcMint,
                         network |-> Network, description |-> toolName]]
  IN The({requirement(price) : price \in {calculatePrice(toolName, params)}})

\* The requirement of every tool call the payment flow makes (computed
\* once); handleToolCall passes args, an object, as params
Requirement ==
  [t \in Tools, b \in BetAmounts \cup AmountBets |->
     getPaymentRequirement(t, BetArgs(b)).value]
ToolPrice == [t \in Tools, b \in BetAmounts \cup AmountBets |->
                Requirement[t, b].amount]

\* ------------------------------------------------------ transfer parsing
\* Position of the first balance with this accountIndex, 0 when there is none
RECURSIVE FindIndex(_, _, _)
FindIndex(balances, accountIndex, k) ==
  IF k > Len(balances) THEN 0
  ELSE IF balances[k].accountIndex = accountIndex THEN k
  ELSE FindIndex(balances, accountIndex, k + 1)

NullTransfer == [kind |-> "null", amount |-> FZero, recipient |-> "", sender |-> ""]
ThrowTransfer == [kind |-> "throw", amount |-> FZero, recipient |-> "", sender |-> ""]

\* inner loop: the first account of the asset whose balance decreased
RECURSIVE FindSender(_, _, _)
FindSender(pre, post, k) ==
  IF k > Len(pre) THEN "unknown"
  ELSE IF pre[k].mint # UsdcMint THEN FindSender(pre, post, k + 1)
  ELSE LET j == FindIndex(post, pre[k].accountIndex, 1) IN
       IF j = 0 THEN FindSender(pre, post, k + 1)
       ELSE IF pre[k].uiAmount = Missing \/ post[j].uiAmount = Missing THEN "throw"
       ELSE IF FLess(FSub(Number(post[j].uiAmount), Number(pre[k].uiAmount)), FZero)
            THEN pre[k].owner
       ELSE FindSender(pre, post, k + 1)

RECURSIVE ScanPost(_, _, _)
ScanPost(pre, post, k) ==
  IF k > Len(post) THEN NullTransfer
  ELSE IF post[k].mint # UsdcMint THEN ScanPost(pre, post, k + 1)
  ELSE LET j == FindIndex(pre, post[k].accountIndex, 1) IN
       IF (j # 0 /\ pre[j].uiAmount = Missing) \/ post[k].uiAmount = Missing
       THEN ThrowTransfer
       ELSE LET preAmount == IF j # 0 THEN Number(pre[j].uiAmount) ELSE FZero
                received(difference) ==
                  IF FLess(FZero, difference)
                  THEN LET sender == FindSender(pre, post, 1) IN
                       IF sender = "throw" THEN ThrowTransfer
                       ELSE [kind |-> "transfer", amount |-> difference,
                             recipient |-> post[k].owner, sender |-> sender]
                  ELSE ScanPost(pre, post, k + 1)
            IN The({received(difference)
                    : difference \in {FSub(Number(post[k].uiAmount), preAmount)}})

extractUSDCTransferMut(txDetails) ==
  IF ~txDetails.hasMeta THEN NullTransfer
  ELSE ScanPost(txDetails.preTokenBalances, txDetails.postTokenBalances, 2)

extractUSDCTransfer(txDetails) ==
  IF ~txDetails.hasMeta THEN NullTransfer
  ELSE ScanPost(txDetails.preTokenBalances, txDetails.postTokenBalances, 1)

\* ------------------------------------------------------------ RPCManager
Endpoints(n) == 0..(n - 1)

\* the while loop of getConnection; returns the connection and the new index
RECURSIVE getConnectionLoop(_, _, _, _)
getConnectionLoopMut(index, attempts, n, health) ==
  IF attempts < n
  THEN [connection |-> index, currentIndex |-> (index + 1) % n,
        examined |-> attempts + 1]
  ELSE [connection |-> 0, currentIndex |-> index, examined |-> attempts]

getConnectionLoop(index, attempts, n, health) ==
  IF attempts < n
  THEN LET connection == index
           next == (index + 1) % n
       IN IF health[connection] \/ attempts = n - 1
          THEN [connection |-> connection, currentIndex |-> next,
                examined |-> attempts + 1]
          ELSE getConnectionLoop(next, attempts + 1, n, health)
  ELSE [connection |-> 0, currentIndex |-> index, examined |-> attempts]

getConnection(index, n, health) == getConnectionLoop(index, 0, n, health)

markHealthy(health, connection) == [health EXCEPT ![connection] = TRUE]
markUnhealthyMut(health, connection) == [e \in DOMAIN health |-> FALSE]

markUnhealthy(health, connection) == [health EXCEPT ![connection] = FALSE]

\* What fn(connection) does inside schedule
RpcOutcomes == {"tx", "null", "e429", "eTimeout", "eOther"}
RpcMessage(outcome) ==
  CASE outcome = "e429"     -> {"429", "rate limit"}
    [] outcome = "eTimeout" -> {"timeout"}
    [] OTHER                -> {}
IsRpcError(outcome) == outcome \in {"e429", "eTimeout", "eOther"}

scheduleHealthMut(health, connection, outcome) ==
  IF ~IsRpcError(outcome) THEN markHealthy(health, connection)
  ELSE IF RpcMessage(outcome) \cap {"timeout"} # {}
       THEN markUnhealthy(health, connection)
       ELSE health

\* health map after one schedule() on the chosen connection
scheduleHealth(health, connection, outcome) ==
  IF ~IsRpcError(outcome) THEN markHealthy(health, connection)
  ELSE IF RpcMessage(outcome) \cap {"429", "rate limit", "timeout"} # {}
       THEN markUnhealthy(health, connection)
       ELSE health

\* ----------------------------------------------------------- replay cache
\* What the params field of an entry can hold: nothing, a plain JSON value
\* (the arguments of a tool call, which arrived as JSON), or a value JSON
\* does not keep (a Date, which JSON.stringify writes as an ISO string)
ParamsKinds == {"undefined", "json", "date"}

NoEntry ==
  [present |-> FALSE, toolName |-> NoTool, amount |-> FZero, timestamp |-> 0,
   params |-> "undefined", expiresAt |-> 0]
Entry(toolName, amount, timestamp, params) ==
  [present |-> TRUE, toolName |-> toolName, amount |-> amount,
   timestamp |-> timestamp, params |-> params, expiresAt |-> 0]

\* JSON.stringify(entry): the text, given by what it holds for each field (an
\* undefined params is left out, a Date is written as a string; strings and
\* finite numbers are written so that they read back unchanged)
JSONstringify(entry) ==
  [entry EXCEPT !.params = CASE @ = "undefined" -> "omitted"
                             [] @ = "date"      -> "isoString"
                             [] OTHER           -> @]

\* JSON.parse(data): a field left out of the text reads as undefined
JSONparse(data) ==
  [data EXCEPT !.params = IF @ = "omitted" THEN "undefined" ELSE @]

MemoryGetMut(store, signature, time) ==
  IF ~store[signature].present THEN [entry |-> NoEntry, store |-> store]
  ELSE IF time >= store[signature].expiresAt
       THEN [entry |-> NoEntry, store |-> [store EXCEPT ![signature] = NoEntry]]
       ELSE [entry |-> [store[signature] EXCEPT !.expiresAt = 0], store |-> store]

\* MemoryCache.get: returns the entry and the map (expired items are deleted)
MemoryGet(store, signature, time) ==
  IF ~store[signature].present THEN [entry |-> NoEntry, store |-> store]
  ELSE IF time > store[signature].expiresAt
       THEN [entry |-> NoEntry, store |-> [store EXCEPT ![signature] = NoEntry]]
       ELSE [entry |-> [store[signature] EXCEPT !.expiresAt = 0], store |-> store]

MemorySetMut(store, signature, entry, time) ==
  IF store[signature].present THEN store
  ELSE [store EXCEPT ![signature] = [entry EXCEPT !.expiresAt = time + ttl]]

\* MemoryCache.set
MemorySet(store, signature, entry, time) ==
  [store EXCEPT ![signature] = [entry EXCEPT !.expiresAt = time + ttl]]

\* MemoryCache.has: (await this.get(signature)) !== null
MemoryHas(store, signature, time) ==
  LET got == MemoryGet(store, signature, time)
  IN [result |-> got.entry.present, store |-> got.store]

MemoryDelete(store, signature) == [store EXCEPT ![signature] = NoEntry]

\* MemoryCache.clear, and the cache.clear() of MemoryCache.disconnect
MemoryClear(store) == [s \in DOMAIN store |-> NoEntry]

MemoryCleanupMut(store, time) == [s \in DOMAIN store |-> NoEntry]

\* MemoryCache.cleanup
MemoryCleanup(store, time) ==
  [s \in DOMAIN store |->
     IF store[s].present /\ time > store[s].expiresAt THEN NoEntry ELSE store[s]]

\* A key written with SETEX holds the text and its expiry instant; the
\* server treats it as gone once its clock is past that instant
RedisLive(store, signature, time) ==
  store[signature].present /\ time <= store[signature].expiresAt

RedisGetMut(store, signature, time, fails) ==
  IF RedisLive(store, signature, time)
  THEN [entry |-> JSONparse([store[signature] EXCEPT !.expiresAt = 0]),
        store |-> store]
  ELSE [entry |-> NoEntry, store |-> store]

\* RedisCache.get / set / has / delete: a failing command is caught (get
\* answers null, has false, set and delete do nothing)
RedisGet(store, signature, time, fails) ==
  IF fails THEN [entry |-> NoEntry, store |-> store]
  ELSE IF RedisLive(store, signature, time)
       THEN [entry |-> JSONparse([store[signature] EXCEPT !.expiresAt = 0]),
             store |-> store]
       ELSE [entry |-> NoEntry, store |-> store]

RedisSet(store, signature, entry, time, fails) ==
  IF fails THEN store
  ELSE [store EXCEPT
          ![signature] = [JSONstringify(entry) EXCEPT !.expiresAt = time + ttl]]

RedisHas(store, signature, time, fails) ==
  IF fails THEN FALSE ELSE RedisLive(store, signature, time)

RedisDelete(store, signature, fails) ==
  IF fails THEN store ELSE [store EXCEPT ![signature] = NoEntry]

\* RedisCache.clear, first command: KEYS lists the keys under the prefix
\* the server holds (a failing command is caught, and no DEL follows)
RedisKeys(store, time, fails) ==
  IF fails THEN {} ELSE {s \in DOMAIN store : RedisLive(store, s, time)}

\* RedisCache.clear, second command: DEL of the keys listed (a failing
\* command is caught)
RedisDel(store, keys, fails) ==
  IF fails THEN store
  ELSE [s \in DOMAIN store |-> IF s \in keys THEN NoEntry ELSE store[s]]

\* PaymentCache.get / set dispatch on the configured backend
CacheGet(type, store, signature, time, fails) ==
  IF type = "redis" THEN RedisGet(store, signature, time, fails)
  ELSE MemoryGet(store, signature, time)

CacheSet(type, store, signature, entry, time, fails) ==
  IF type = "redis" THEN RedisSet(store, signature, entry, time, fails)
  ELSE MemorySet(store, signature, entry, time)

\* ---------------------------------------------------------------- monitor
InitMetrics ==
  [totalVerifications |-> 0, successfulVerifications |-> 0,
   failedVerifications |-> 0, cacheHits |-> 0, cacheMisses |-> 0,
   rpcErrors |-> 0, totalAmount |-> FZero]

\* amount is a Number of USDC; FZero stands for the omitted (undefined)
\* argument as well as for 0, which `if (amount)` treats alike.  totalAmount
\* is the binary64 running sum of `totalAmount += amount`
recordVerification(m, success, fromCache, amount) ==
  [m EXCEPT
     !.totalVerifications = @ + 1,
     !.successfulVerifications = IF success THEN @ + 1 ELSE @,
     !.totalAmount = IF success /\ amount # FZero THEN FAdd(@, amount) ELSE @,
     !.failedVerifications = IF success THEN @ ELSE @ + 1,
     !.cacheHits = IF fromCache THEN @ + 1 ELSE @,
     !.cacheMisses = IF fromCache THEN @ ELSE @ + 1]

recordRPCError(m) == [m EXCEPT !.rpcErrors = @ + 1]

\* recentEvents.push(event), then slice(-maxEvents) when the buffer is too long
pushEventMut(events, event) ==
  LET pushed == Append(events, event)
  IN IF Len(pushed) > maxEvents THEN SubSeq(pushed, 1, maxEvents) ELSE pushed
pushEvent(events, event) ==
  LET pushed == Append(events, event)
  IN IF Len(pushed) > maxEvents
     THEN SubSeq(pushed, Len(pushed) - maxEvents + 1, Len(pushed))
     ELSE pushed

\* ---------------------------------------------------------- verifyPayment
\* What verifyPayment makes of the answer of paymentCache.get
LookupOutcomeMut(cached, toolName) ==
  IF cached.present /\ cached.toolName # toolName THEN "replay" ELSE "miss"

LookupOutcome(cached, toolName) ==
  IF cached.present
  THEN IF cached.toolName # toolName THEN "replay" ELSE "hit"
  ELSE "miss"

\* transfer.amount < expectedAmount - tolerance
AmountBelowRequired(amount, expectedAmount) ==
  FLess(amount, FSub(Number(expectedAmount), Number(tolerance)))

IsExpiredMut(time, blockTime) == time - blockTime >= maxTransactionAge

\* age > maxAge, the age being Date.now() / 1000 - blockTime
IsExpired(time, blockTime) == time - blockTime > maxTransactionAge

CheckAgeMut(txDetails, time) ==
  IF txDetails.blockTime = Missing \/ txDetails.blockTime = 0
  THEN PaymentError("TRANSACTION_NOT_FOUND", NoDetails)
  ELSE NoError

\* The block time and age checks of verifyPayment on the transaction
\* verifyTransactionWithRetry returned: the exception thrown (NoError when
\* none); time is Date.now() / 1000 read by the age check
CheckAge(txDetails, time) ==
  IF txDetails.blockTime = Missing \/ txDetails.blockTime = 0
  THEN PaymentError("TRANSACTION_NOT_FOUND", NoDetails)
  ELSE IF IsExpired(time, txDetails.blockTime)
  THEN createExpiredPaymentError
  ELSE NoError

CheckTransferMut(txDetails, expectedAmount) ==
  LET none == NullTransfer
      checked(transfer) ==
        IF transfer.kind = "throw"
        THEN [error |-> Error({}), transfer |-> none]
        ELSE IF transfer.kind = "null"
        THEN [error |-> PaymentError("WRONG_TOKEN", [NoDetails EXCEPT !.present = TRUE]),
              transfer |-> none]
        ELSE IF transfer.recipient # RecipientWallet
        THEN [error |-> createWrongRecipientError, transfer |-> transfer]
        ELSE IF AmountBelowRequired(transfer.amount, expectedAmount)
        THEN [error |-> createInsufficientAmountError(Number(expectedAmount),
                                                      transfer.amount),
              transfer |-> transfer]
        ELSE [error |-> NoError, transfer |-> transfer]
  IN The({checked(transfer) : transfer \in {extractUSDCTransfer(txDetails)}})

\* The checks of verifyPayment after the age check, up to the cache write:
\* extractUSDCTransfer, then the amount and the recipient of the transfer;
\* the exception thrown (NoError when none) and the parsed transfer
CheckTransfer(txDetails, expectedAmount) ==
  LET none == NullTransfer
      checked(transfer) ==
        IF transfer.kind = "throw"
        THEN [error |-> Error({}), transfer |-> none]
        ELSE IF transfer.kind = "null"
        THEN [error |-> PaymentError("WRONG_TOKEN", [NoDetails EXCEPT !.present = TRUE]),
              transfer |-> none]
        ELSE IF AmountBelowRequired(transfer.amount, expectedAmount)
        THEN [error |-> createInsufficientAmountError(Number(expectedAmount),
                                                      transfer.amount),
              transfer |-> transfer]
        ELSE IF transfer.recipient # RecipientWallet
        THEN [error |-> createWrongRecipientError, transfer |-> transfer]
        ELSE [error |-> NoError, transfer |-> transfer]
  IN The({checked(transfer) : transfer \in {extractUSDCTransfer(txDetails)}})

\* extractUSDCTransfer on the recorded transaction of each reference
ChainTransfer == [s \in Sigs |-> extractUSDCTransfer(Chain(s))]
\* the prices verifyPayment is called with, and the outcome of the checks
\* for every recorded transaction and price (computed once)
Prices == {ToolPrice[t, b] : t \in Tools, b \in BetAmounts \cup AmountBets}
CheckedTransfer ==
  [s \in Sigs, p \in Prices |-> CheckTransfer(Chain(s), p)]

CatchErrorMut(error) ==
  IF error.message \cap {"not found", "404"} # {}
  THEN createTransactionNotFoundError
  ELSE error

\* The catch block of verifyPayment: the error rethrown to the caller
CatchError(error) ==
  IF error.kind = "PaymentError" THEN error
  ELSE IF error.message \cap {"not found", "404"} # {}
       THEN createTransactionNotFoundError
  ELSE IF error.message \cap {"timeout", "timed out"} # {}
       THEN PaymentError("VERIFICATION_TIMEOUT", [NoDetails EXCEPT !.present = TRUE])
  ELSE createRPCError

\* ... and what it records in the monitor
CatchMetricsMut(m, error) ==
  recordRPCError(recordVerification(m, FALSE, FALSE, FZero))
CatchMetrics(m, error) ==
  LET m1 == recordVerification(m, FALSE, FALSE, FZero)
  IN IF error.kind = "PaymentError" THEN m1
     ELSE IF error.message \cap {"not found", "404", "timeout", "timed out"} # {}
          THEN m1
     ELSE recordRPCError(m1)

\* ------------------------------------------------------------------ state
VARIABLES
  numEndpoints,   \* number of configured RPC endpoints
  cacheType,      \* "memory" or "redis" (PaymentCache backend)
  now,            \* Date.now() / 1000
  cache,          \* the replay cache: signature -> entry with its expiry
  currentIndex,   \* RPCManager.currentIndex
  healthStatus,   \* RPCManager.healthStatus
  metrics,        \* PaymentMonitor.metrics
  calls,          \* the calls in flight, one per call path.  via is the
                  \* caller of verifyPayment.  pc is where the call waits:
                  \* "get" for paymentCache.get to resolve, "rpc" for the
                  \* limiter to start its schedule() job, "fetch" for the
                  \* answer of getTransaction on the connection picked,
                  \* "answered" for verifyTransactionWithRetry to go on
                  \* after schedule() settled (fetched: with the
                  \* transaction), "extract" for extractUSDCTransfer to resolve,
                  \* "record" for paymentCache.set to resolve, "caught" for
                  \* the catch of handleToolCall to run on the error
                  \* verifyPayment threw, "tool" for handleToolCall to go
                  \* on after verifyPayment returned valid, "slot" for the
                  \* getSlot of the healthCheck tool, "reply" for
                  \* handleToolCall to go on after executeTool; rateLimited
                  \* is "all" while every attempt of the call was answered
                  \* by a rate-limit error and no endpoint was marked healthy,
                  \* "healed" once one was, "no" after any other answer;
                  \* timedOut is "all" while every attempt timed out (where
                  \* the attempts are noted)
  last,           \* the call that returned to its caller in the step just
                  \* taken (NoLast if none)
  accepted,       \* history: signature -> toolNames accepted VALID, cached=false
  executed,       \* history: signatures for which a tool body was executed
  durable,        \* a RedisCache given the same operations as the
                  \* MemoryCache held in cache (cache operations only)
  answer,         \* what the two backends answered to the operation just made
  written,        \* history: signature -> the entry set last and not
                  \* removed by delete, clear or disconnect
  gateway,        \* a scheduleWithRetry call on the RPCManager and the
                  \* schedule() it made in the step just taken
  quote,          \* the getPaymentRequirement call just made and its outcome
  scan,            \* the extractUSDCTransfer call just made and what it gave
  recentEvents,    \* PaymentMonitor.recentEvents, oldest first
  peer,            \* the other server process, out of focus
  timer,           \* the health-check timer of RPCManager and the endpoints it meets
  limiter,         \* the Bottleneck limiter of RPCManager and the RPC calls in flight
  backend         \* the cache backend: isOpen is client.isOpen of
                  \* RedisCache, cleanupInterval whether the interval the
                  \* constructor of MemoryCache set is still set

vars == << numEndpoints, cacheType, now, cache, currentIndex, healthStatus,
           metrics, calls, last, accepted, executed, durable, answer,
           written, gateway, quote, scan, recentEvents, peer, timer, limiter, backend >>

IdleCall ==
  [pc |-> "idle", via |-> "direct", sig |-> NoSig, toolName |-> NoTool,
   betAmount |-> 0, expectedAmount |-> 0, i |-> 0, rpcCalls |-> 0,
   cacheOps |-> 0, rateLimited |-> "all", timedOut |-> "all", prior |-> {},
   ranBefore |-> FALSE, entryTool |-> NoTool, verify |-> FALSE,
   fetched |-> FALSE, wrote |-> FALSE, readFailed |-> FALSE,
   writeFailed |-> FALSE, expiredEntry |-> FALSE, picked |-> Missing,
   checkedAt |-> 0, cached |-> FALSE, amount |-> FZero, got |-> NoEntry,
   error |-> NoError, toolRan |-> FALSE, envelope |-> "none"]

NoLast ==
  [via |-> "none", sig |-> NoSig, toolName |-> NoTool, betAmount |-> 0,
   expectedAmount |-> 0, rpcCalls |-> 0, cacheOps |-> 0,
   rateLimited |-> "all", timedOut |-> "all", prior |-> {},
   ranBefore |-> FALSE, entryTool |-> NoTool, verify |-> FALSE,
   fetched |-> FALSE, wrote |-> FALSE, readFailed |-> FALSE,
   writeFailed |-> FALSE, expiredEntry |-> FALSE, checkedAt |-> 0,
   attempts |-> 0,
   error |-> NoError, valid |-> FALSE, cached |-> FALSE, amount |-> FZero,
   toolRan |-> FALSE, envelope |-> "none"]

\* the signatures the backends are compared on
CacheSigs == {"sPaid", "sBetShortByOne"}

\* the backend as the constructor and connect() leave it
\*   clearing: the clear() calls of RedisCache in progress, oldest first:
\*             for each the keys its KEYS listed, its DEL not yet sent
\*   raced:    history: an operation was made while a clear() was in progress
OpenBackend ==
  [isOpen |-> TRUE, cleanupInterval |-> TRUE, clearing |-> << >>,
   raced |-> FALSE]
\* an operation made now overtakes a clear() in progress
Overtaking == backend.clearing # << >>
\* no disconnect() was made (the client is open and the cleanup interval,
\* which nothing sets again once disconnect() cleared it, is set), and no
\* operation has overtaken a clear()
Undisturbed == backend.isOpen /\ backend.cleanupInterval /\ ~backend.raced
\* a disconnect() was made or an operation overtook a clear()
Disturbed == ~backend.cleanupInterval \/ backend.raced

\* sinceClosed counts the operations made after the first disconnect(), and
\* those made from the first one that overtook a clear() on (history;
\* connect() is not counted)
NoAnswer ==
  [op |-> "none", sig |-> NoSig, at |-> 0, memory |-> NoEntry,
   durable |-> NoEntry, memoryHas |-> FALSE, durableHas |-> FALSE,
   sinceClosed |-> 0]

\* the answer record of an operation made now
Answer(op, sig) ==
  [NoAnswer EXCEPT !.op = op, !.sig = sig, !.at = now,
                   !.sinceClosed = IF Disturbed \/ Overtaking
                                   THEN answer.sinceClosed + 1 ELSE 0]

\* operations go on after a disconnect(), or after one overtook a clear(),
\* as far as they are explored
Explored == ~Disturbed \/ answer.sinceClosed < MaxClosedOps

NoQuote ==
  [toolName |-> NoTool, params |-> NoParams, asked |-> FALSE,
   threw |-> FALSE, error |-> "none", value |-> NoRequirement]

NoScan == [asked |-> FALSE, accounts |-> << >>, transfer |-> NullTransfer,
           code |-> "none"]

\* pc is "retry" while a job of schedule() waits for the limiter, "fn"
\* while it awaits fn(connection) and "settled" once the job has marked the
\* connection and scheduleWithRetry has not gone on yet; picked, examined
\* and outcome describe the last schedule() of the call: the connection
\* getConnection returned, the number of connections it looked at and what
\* fn did on it
IdleGateway ==
  [pc |-> "idle", maxRetries |-> 0, i |-> 0, schedules |-> 0, failures |-> 0,
   picked |-> Missing, examined |-> 0, outcome |-> "none",
   lastError |-> "undefined", result |-> "none", value |-> "none"]

\* the timer with no round in flight, every endpoint answering getSlot
\*   waiting: per connection, the rounds of the timer that await its getSlot
\*   mode:    what each endpoint does with a getSlot: "answers", "fails"
\*            (the call throws) or "silent" (the call does not settle)
IdleTimer ==
  [waiting |-> [e \in Endpoints(numEndpoints) |-> 0],
   mode |-> [e \in Endpoints(numEndpoints) |-> "answers"]]

\* the limiter after construction, no RPC call in flight
\*   queued:    jobs handed to limiter.schedule and not started
\*   running:   started jobs per connection (their fn(connection) in flight)
\*   tokens:    what is left of the reservoir
\*   spaced:    minTime has passed since the last job was started
\*   checking:  getSlot calls of PaymentService.healthCheck in flight
IdleLimiter ==
  [queued |-> 0, running |-> [e \in Endpoints(numEndpoints) |-> 0],
   tokens |-> reservoir, spaced |-> TRUE,
   checking |-> [e \in Endpoints(numEndpoints) |-> 0]]

\* a server process as it is after start-up: what its PaymentService owns
FreshProcess ==
  [cache |-> [s \in Sigs |-> NoEntry], metrics |-> InitMetrics,
   calls |-> [c \in Calls |-> IdleCall], currentIndex |-> 0,
   healthStatus |-> [e \in Endpoints(numEndpoints) |-> TRUE],
   recentEvents |-> << >>, backend |-> OpenBackend,
   timer |-> IdleTimer, limiter |-> IdleLimiter, gateway |-> IdleGateway]

\* The server as index.ts starts it: the services constructed and
\* toolHandler.initialize() returned
InitWith(endpointCounts) ==
  /\ numEndpoints \in endpointCounts
  /\ cacheType \in {"memory", "redis"}
  /\ now = T0
  /\ cache = [s \in Sigs |-> NoEntry]
  /\ currentIndex = 0
  /\ healthStatus = [e \in Endpoints(numEndpoints) |-> TRUE]
  /\ metrics = InitMetrics
  /\ calls = [c \in Calls |-> IdleCall]
  /\ last = NoLast
  /\ accepted = [s \in Sigs |-> {}]
  /\ executed = {}
  /\ durable = [s \in CacheSigs |-> NoEntry]
  /\ answer = NoAnswer
  /\ written = [s \in Sigs |-> NoEntry]
  /\ gateway = IdleGateway
  /\ quote = NoQuote
  /\ backend = OpenBackend
  /\ limiter = IdleLimiter
  /\ timer = IdleTimer
  /\ peer = FreshProcess
  /\ recentEvents = << >>
  /\ scan = NoScan

\* the devnet configuration without HELIUS_API_KEY has one endpoint
Init == InitWith({1})

\* --------------------------------------------------------- handleToolCall
\* executeTool(toolName, args), args being well-formed but for the bet
\* (market, side and timeframe are given and valid; betAmount, in whole USDC,
\* is args.amount): executeBet throws on `!amount` and on `amount <= 0`, the
\* default case throws for a name without a case, the other tools return
\* (healthCheck whatever its getSlot answers)
executeTool(toolName, betAmount) ==
  IF toolName \notin KnownTools THEN "threw"
  ELSE IF toolName = "executeBet" /\ betAmount <= 0 THEN "threw"
  ELSE "returned"

HandleOutcomeMut(error, toolName, betAmount) ==
  IF error.kind = "PaymentError"
  THEN [toolRan |-> TRUE, envelope |-> error.code]
  ELSE [toolRan |-> TRUE,
        envelope |-> IF executeTool(toolName, betAmount) = "threw"
                     THEN "TOOL_EXECUTION_ERROR" ELSE "success"]

\* What handleToolCall does with the outcome of verifyPayment: executeTool
\* runs after a normal return; a thrown PaymentError becomes toMCPError(),
\* any other exception the TOOL_EXECUTION_ERROR envelope
HandleOutcome(error, toolName, betAmount) ==
  IF error.kind = "none"
  THEN [toolRan |-> TRUE,
        envelope |-> IF executeTool(toolName, betAmount) = "threw"
                     THEN "TOOL_EXECUTION_ERROR" ELSE "success"]
  ELSE IF error.kind = "PaymentError"
       THEN [toolRan |-> FALSE, envelope |-> error.code]
       ELSE [toolRan |-> FALSE, envelope |-> "TOOL_EXECUTION_ERROR"]

\* The record of a call that returns to its caller: error is what
\* verifyPayment threw (NoError on a normal return); a handler call that ran
\* its tool returns the envelope of the tool's outcome
Returned(call, error, cached, amount) ==
  LET h == IF call.via # "handler"
           THEN [toolRan |-> FALSE, envelope |-> "none"]
           ELSE IF error.kind = "none"
           THEN [toolRan |-> call.toolRan, envelope |-> call.envelope]
           ELSE HandleOutcome(error, call.toolName, call.betAmount)
  IN [via |-> call.via, sig |-> call.sig, toolName |-> call.toolName,
      betAmount |-> call.betAmount, expectedAmount |-> call.expectedAmount,
      rpcCalls |-> call.rpcCalls, cacheOps |-> call.cacheOps,
      rateLimited |-> call.rateLimited, timedOut |-> call.timedOut,
      prior |-> call.prior, ranBefore |-> call.ranBefore,
      entryTool |-> call.entryTool, verify |-> call.verify,
      fetched |-> call.fetched, wrote |-> call.wrote,
      readFailed |-> call.readFailed, writeFailed |-> call.writeFailed,
      expiredEntry |-> call.expiredEntry, checkedAt |-> call.checkedAt,
      attempts |-> call.i,
      error |-> error, valid |-> (error.kind = "none"), cached |-> cached,
      amount |-> amount, toolRan |-> h.toolRan, envelope |-> h.envelope]

\* where a call is while verifyPayment runs
VerifyPcs == {"get", "rpc", "fetch", "answered", "extract", "record"}

\* the other calls whose verifyPayment runs note that an endpoint was
\* marked healthy
NoteHealed(d, marked) ==
  IF calls[d].pc \in VerifyPcs /\ marked /\ calls[d].rateLimited = "all"
  THEN [calls[d] EXCEPT !.rateLimited = "healed"]
  ELSE calls[d]

\* The call returns to the caller of handleToolCall (or of verifyPayment)
Finish(c, call, error, cached, amount) ==
  LET r == Returned(call, error, cached, amount) IN
  /\ last' = r
  /\ calls' = [calls EXCEPT ![c] = IdleCall]
  /\ executed' = IF r.toolRan THEN executed \cup {call.sig} ELSE executed
  /\ accepted' = IF r.valid /\ ~cached
                 THEN [accepted EXCEPT ![call.sig] = @ \cup {call.toolName}]
                 ELSE accepted

\* the event recordVerification pushes; arrival is a history field, the
\* number of the call that recorded it (timestamp and duration are left out)
Event(success, fromCache, amount) ==
  [success |-> success, fromCache |-> fromCache, amount |-> amount,
   arrival |-> metrics.totalVerifications + 1]

\* monitor.recordVerification(success, duration, fromCache): verifyPayment
\* passes no amount
MonitorRecords(success, fromCache) ==
  /\ metrics' = recordVerification(metrics, success, fromCache, FZero)
  /\ recentEvents' = pushEvent(recentEvents, Event(success, fromCache, FZero))

\* the catch block of verifyPayment on the monitor
MonitorCatches(error) ==
  /\ metrics' = CatchMetrics(metrics, error)
  /\ recentEvents' = pushEvent(recentEvents, Event(FALSE, FALSE, FZero))

\* verifyPayment, having gone through its catch block, throws error: a
\* direct caller has its outcome; handleToolCall, which awaits the call,
\* runs its own catch in a later turn
Throws(c, call, error) ==
  IF call.via = "direct"
  THEN Finish(c, call, error, FALSE, FZero)
  ELSE /\ calls' = [calls EXCEPT ![c] = [call EXCEPT !.pc = "caught",
                                                     !.error = error]]
       /\ last' = NoLast
       /\ UNCHANGED << accepted, executed >>

\* verifyPayment has recorded the verification and returns valid: a direct
\* caller has its outcome; handleToolCall, which awaits the call, goes on in
\* a later turn
ReturnValid(c, call, cached, amount) ==
  IF call.via = "direct"
  THEN Finish(c, call, NoError, cached, amount)
  ELSE /\ calls' = [calls EXCEPT ![c] = [call EXCEPT !.pc = "tool",
                                                     !.cached = cached,
                                                     !.amount = amount]]
       /\ last' = NoLast
       /\ accepted' = IF cached THEN accepted
                      ELSE [accepted EXCEPT ![call.sig] = @ \cup {call.toolName}]
       /\ UNCHANGED executed

\* the calls whose verification the monitor has not recorded yet
Verifying == {c \in Calls : calls[c].pc \in VerifyPcs}

\* The tool of the entry stored for the signature and alive at this
\* instant, as a cache read that does not fail finds it
EntryToolAt(signature) ==
  IF cache[signature].present /\ now <= cache[signature].expiresAt
  THEN cache[signature].toolName ELSE NoTool

\* handleToolCall(toolName, args) without a payment signature: the
\* PAYMENT_REQUIRED envelope, before verifyPayment is reached
CallUnpaid(c) ==
  /\ calls[c].pc = "idle"
  /\ \E toolName \in Tools, sig \in {NoSig, "sEmpty"} :
     \E betAmount \in (IF toolName = "executeBet" THEN BetAmounts ELSE {0}) :
       LET paymentReq == Requirement[toolName, betAmount]
           call == [IdleCall EXCEPT !.via = "handler", !.sig = sig,
                      !.toolName = toolName, !.betAmount = betAmount,
                      !.expectedAmount = paymentReq.amount,
                      !.ranBefore = (sig \in executed)]
       IN Finish(c, call, createPaymentRequiredError(paymentReq), FALSE, FZero)
  /\ UNCHANGED << backend, limiter, timer, peer, scan, quote, gateway, durable, answer, written, numEndpoints, cacheType, now, recentEvents, cache, currentIndex,
                  healthStatus, metrics >>

\* whether a cache command made now fails: a command may fail only on the
\* durable backend, and fails on it while its client is closed
CommandFails(fails) ==
  /\ fails => cacheType = "redis"
  /\ (cacheType = "redis" /\ ~backend.isOpen) => fails

\* verifyPayment(signature, expectedAmount, toolName, params) from its entry
\* to its first await.  handleToolCall passes the computed requirement as
\* expectedAmount and its args as params, and never passes the empty
\* signature on; a direct caller passes the price of the tool and no
\* params.  A malformed signature goes through the catch block at once;
\* otherwise paymentCache.get is called (MemoryCache.get reads, and drops an
\* expired item, in the call; RedisCache.get sends its GET) and the call
\* waits for it to resolve, got being what it resolves to
CallVerifyOn(c, vias, sigs, tools, bets) ==
  /\ calls[c].pc = "idle"
  /\ metrics.totalVerifications + Cardinality(Verifying) < MaxVerifications
  /\ \E via \in vias, toolName \in tools, sig \in sigs, fails \in BOOLEAN :
     \E betAmount \in (IF toolName = "executeBet" THEN bets ELSE {0}) :
       LET call0 == [IdleCall EXCEPT !.via = via, !.sig = sig,
                      !.toolName = toolName, !.betAmount = betAmount,
                      !.expectedAmount = ToolPrice[toolName, betAmount],
                      !.prior = accepted[sig], !.verify = TRUE,
                      !.ranBefore = (sig \in executed)]
       IN /\ via = "handler" => sig # "sEmpty"
          /\ IF ~isValidSignature(SigString(sig))
             THEN /\ ~fails
                  /\ MonitorCatches(createInvalidSignatureError)
                  /\ Throws(c, call0, CatchError(createInvalidSignatureError))
                  /\ UNCHANGED cache
             ELSE LET got == CacheGet(cacheType, cache, sig, now, fails)
                      \* entryTool: the tool of the entry stored and alive;
                      \* readFailed: the failing read was of such an entry
                      \* (of an absent key it is the null the read would
                      \* give); expiredEntry: the entry set last for the
                      \* signature had expired
                      call == [call0 EXCEPT !.pc = "get", !.cacheOps = 1,
                                 !.readFailed = fails /\ RedisLive(cache, sig, now),
                                 !.expiredEntry =
                                    written[sig].present
                                    /\ now > written[sig].timestamp + ttl,
                                 !.entryTool = EntryToolAt(sig),
                                 !.got = got.entry]
                  IN /\ CommandFails(fails)
                     /\ cache' = got.store
                     /\ calls' = [calls EXCEPT ![c] = call]
                     /\ last' = NoLast
                     /\ UNCHANGED << metrics, recentEvents, accepted, executed >>
  /\ UNCHANGED << backend, limiter, timer, peer, scan, quote, gateway, durable, answer, written, numEndpoints, cacheType, now, healthStatus, currentIndex >>

\* paymentCache.get has resolved.  An entry of the same tool is a hit: the
\* verification is recorded and verifyPayment returns valid, cached; an
\* entry of another tool is a replay, thrown through the catch block; with
\* no entry verifyTransactionWithRetry hands its first job to schedule()
LookupReply(c) ==
  /\ calls[c].pc = "get"
  /\ LET call == [calls[c] EXCEPT !.got = NoEntry]
         replay == createReplayAttackError(calls[c].got.toolName)
         found == LookupOutcome(calls[c].got, call.toolName)
     IN IF found = "replay"
        THEN /\ MonitorCatches(replay)
             /\ Throws(c, call, CatchError(replay))
        ELSE IF found = "hit"
        THEN /\ MonitorRecords(TRUE, TRUE)
             /\ ReturnValid(c, call, TRUE, FZero)
        ELSE /\ calls' = [calls EXCEPT ![c] = [call EXCEPT !.pc = "rpc"]]
             /\ last' = NoLast
             /\ UNCHANGED << metrics, recentEvents, accepted, executed >>
  /\ UNCHANGED << backend, limiter, timer, peer, scan, quote, gateway, durable, answer, written, numEndpoints, cacheType, now, healthStatus, currentIndex, cache >>

\* a tool of a fixed price and the one whose price grows with the bet
PricedTools == {"analyzeMarket", "executeBet"}

\* The calls made one after the other: handleToolCall with the valid
\* payment for every tool and bet, a direct caller with it for two tools,
\* and both callers with every other reference for two tools
CallVerify(c) ==
  \/ CallVerifyOn(c, {"handler"}, {"sPaid"}, Tools, BetAmounts)
  \/ CallVerifyOn(c, {"direct"}, {"sPaid"}, PricedTools, {1})
  \/ CallVerifyOn(c, Callers, (GoodSigs \cup BadSigs) \ {"sPaid"},
                  PricedTools, {1})

MoreRetriesMut(i, maxRetries) == i <= maxRetries

\* The loop condition of verifyTransactionWithRetry, i being the number of
\* iterations already made
MoreRetries(i, maxRetries) == i < maxRetries

\* `if (tx) return tx`: a non-empty answer ends the loop
ReturnsTxMut(tx) == tx.found /\ tx.blockTime # Missing
ReturnsTx(tx) == tx.found

\* The limiter starts the job verifyTransactionWithRetry handed to
\* schedule(): getConnection picks a connection and moves currentIndex on,
\* and getTransaction is called on the connection
RpcStart(c) ==
  /\ calls[c].pc = "rpc"
  /\ \E sel \in {getConnection(currentIndex, numEndpoints, healthStatus)} :
       /\ currentIndex' = sel.currentIndex
       /\ calls' = [calls EXCEPT ![c] = [@ EXCEPT !.pc = "fetch",
                                                  !.picked = sel.connection,
                                                  !.rpcCalls = @ + 1]]
  /\ last' = NoLast
  /\ UNCHANGED << backend, limiter, timer, peer, scan, quote, gateway, durable, answer, written, numEndpoints, cacheType, now, recentEvents, cache, healthStatus, metrics,
                  accepted, executed >>

\* getTransaction answers or throws: the job of schedule() marks the
\* connection it ran on and settles with the answer, for
\* verifyTransactionWithRetry to go on with.  With noted, the call keeps in
\* timedOut whether every attempt so far timed out (a history of the
\* answers, kept where a claim asks for it)
RpcAnswerNoting(c, noted) ==
  /\ calls[c].pc = "fetch"
  /\ \E outcome \in RpcOutcomes :
       /\ healthStatus' = scheduleHealth(healthStatus, calls[c].picked, outcome)
       /\ calls' = [d \in Calls |->
                     IF d = c
                     THEN [calls[c] EXCEPT
                             !.pc = "answered", !.i = @ + 1,
                             !.picked = Missing,
                             !.fetched = outcome = "tx" /\ Chain(calls[c].sig).found,
                             !.rateLimited = IF outcome = "e429" THEN @ ELSE "no",
                             !.timedOut = IF noted /\ outcome = "eTimeout"
                                          THEN @ ELSE "no"]
                     ELSE NoteHealed(d, ~IsRpcError(outcome))]
  /\ last' = NoLast
  /\ UNCHANGED << backend, limiter, timer, peer, scan, quote, gateway, durable, answer, written, numEndpoints, cacheType, now, currentIndex, cache, metrics, recentEvents, accepted, executed >>

RpcAnswer(c) == RpcAnswerNoting(c, FALSE)

\* verifyTransactionWithRetry goes on after its schedule() settled.  A
\* transaction ends the loop and verifyPayment goes on with it: the block
\* time and the age checks, then extractUSDCTransfer is called.  Without a
\* transaction the loop waits and hands its next job to schedule(), or,
\* after the last iteration, throws.  A failed check and that throw go
\* through the catch block of verifyPayment
FetchReturn(c) ==
  /\ calls[c].pc = "answered"
  /\ LET tx == IF calls[c].fetched THEN Chain(calls[c].sig) ELSE NoTx
         \* checkedAt: the Date.now() of the age check
         call == [calls[c] EXCEPT !.checkedAt = IF tx.found THEN now ELSE @]
         aged == CheckAge(tx, now)
         notFound == createTransactionNotFoundError
     IN IF ReturnsTx(tx)
        THEN IF aged.kind = "none"
             THEN /\ calls' = [calls EXCEPT ![c] = [call EXCEPT !.pc = "extract"]]
                  /\ last' = NoLast
                  /\ UNCHANGED << metrics, recentEvents, accepted, executed >>
             ELSE /\ MonitorCatches(aged)
                  /\ Throws(c, call, CatchError(aged))
        ELSE IF MoreRetries(call.i, retryAttempts)
        THEN /\ calls' = [calls EXCEPT ![c] = [call EXCEPT !.pc = "rpc"]]
             /\ last' = NoLast
             /\ UNCHANGED << metrics, recentEvents, accepted, executed >>
        ELSE /\ MonitorCatches(notFound)
             /\ Throws(c, call, CatchError(notFound))
  /\ UNCHANGED << backend, limiter, timer, peer, scan, quote, gateway, durable, answer, written, numEndpoints, cacheType, now, currentIndex, cache, healthStatus >>

\* extractUSDCTransfer has resolved or thrown: the token, amount and
\* recipient checks; a failed one goes through the catch block, and after
\* the last one paymentCache.set is called with the entry (MemoryCache.set
\* stores it in the call, RedisCache.set sends its SETEX); handleToolCall
\* passes its args as params, a direct caller none
TransferCheck(c) ==
  /\ calls[c].pc = "extract"
  /\ \E fails \in BOOLEAN :
     \E v \in {CheckedTransfer[calls[c].sig, calls[c].expectedAmount]} :
       LET call == calls[c]
           entry == Entry(call.toolName, v.transfer.amount, now,
                          IF call.via = "handler" THEN "json" ELSE "undefined")
       IN IF v.error.kind = "none"
          THEN /\ CommandFails(fails)
               /\ cache' = CacheSet(cacheType, cache, call.sig, entry, now, fails)
               /\ written' = IF fails THEN written
                             ELSE [written EXCEPT ![call.sig] = entry]
               /\ calls' = [calls EXCEPT ![c] =
                              [call EXCEPT !.pc = "record", !.cacheOps = @ + 1,
                                           !.wrote = ~fails,
                                           !.writeFailed = fails,
                                           !.amount = v.transfer.amount]]
               /\ last' = NoLast
               /\ UNCHANGED << metrics, recentEvents, accepted, executed >>
          ELSE /\ ~fails
               /\ MonitorCatches(v.error)
               /\ Throws(c, call, CatchError(v.error))
               /\ UNCHANGED << cache, written >>
  /\ UNCHANGED << backend, limiter, timer, peer, scan, quote, gateway, durable, answer, numEndpoints, cacheType, now, currentIndex, healthStatus >>

\* paymentCache.set has resolved: verifyPayment records the verification on
\* the monitor and returns valid
VerifyReturn(c) ==
  /\ calls[c].pc = "record"
  /\ MonitorRecords(TRUE, FALSE)
  /\ ReturnValid(c, calls[c], FALSE, calls[c].amount)
  /\ UNCHANGED << backend, limiter, timer, peer, scan, quote, gateway, durable, answer, written, numEndpoints, cacheType, now, cache, healthStatus, currentIndex >>

\* The catch of handleToolCall runs on what verifyPayment threw, and the
\* handler returns the error envelope
HandlerCatch(c) ==
  /\ calls[c].pc = "caught"
  /\ Finish(c, calls[c], calls[c].error, FALSE, FZero)
  /\ UNCHANGED << backend, limiter, timer, peer, scan, quote, gateway, durable, answer, written, numEndpoints, cacheType, now, recentEvents, cache, currentIndex, healthStatus,
                  metrics >>

\* handleToolCall goes on after verifyPayment returned valid: executeTool
\* runs the tool body.  The healthCheck tool calls
\* paymentService.healthCheck(), which takes a connection with
\* getConnection() and awaits its getSlot; every other tool returns or
\* throws without waiting.  The handler awaits executeTool
ExecuteTool(c) ==
  /\ calls[c].pc = "tool"
  /\ LET call == calls[c]
         h == HandleOutcome(NoError, call.toolName, call.betAmount)
         ran == [call EXCEPT !.toolRan = h.toolRan, !.envelope = h.envelope]
     IN /\ IF call.toolName = "healthCheck"
           THEN /\ currentIndex' =
                     getConnection(currentIndex, numEndpoints, healthStatus).currentIndex
                /\ calls' = [calls EXCEPT ![c] = [ran EXCEPT !.pc = "slot"]]
           ELSE /\ calls' = [calls EXCEPT ![c] = [ran EXCEPT !.pc = "reply"]]
                /\ UNCHANGED currentIndex
        /\ executed' = IF h.toolRan THEN executed \cup {call.sig} ELSE executed
  /\ last' = NoLast
  /\ UNCHANGED << backend, limiter, timer, peer, scan, quote, gateway, durable, answer, written, numEndpoints, cacheType, now, recentEvents, cache, healthStatus, metrics, accepted >>

\* The getSlot of the healthCheck tool answers or fails: healthCheck catches
\* the failure, and the tool returns its result either way
HealthCheckTool(c) ==
  /\ calls[c].pc = "slot"
  /\ calls' = [calls EXCEPT ![c] = [@ EXCEPT !.pc = "reply"]]
  /\ last' = NoLast
  /\ UNCHANGED << backend, limiter, timer, peer, scan, quote, gateway, durable, answer, written, numEndpoints, cacheType, now, recentEvents, cache, currentIndex, healthStatus,
                  metrics, accepted, executed >>

\* executeTool has returned or thrown: the handler returns the success
\* envelope, or TOOL_EXECUTION_ERROR from its catch
HandlerReturn(c) ==
  /\ calls[c].pc = "reply"
  /\ Finish(c, calls[c], NoError, calls[c].cached, calls[c].amount)
  /\ UNCHANGED << backend, limiter, timer, peer, scan, quote, gateway, durable, answer, written, numEndpoints, cacheType, now, recentEvents, cache, currentIndex, healthStatus,
                  metrics >>

\* BettingToolHandler.shutdown(), that is PaymentService.shutdown(), that is
\* paymentCache.disconnect(): MemoryCache clears its cleanup interval and
\* empties its map; RedisCache closes its client if it is open, the stored
\* keys stay
Shutdown ==
  /\ backend' = IF cacheType = "memory"
                THEN [backend EXCEPT !.cleanupInterval = FALSE]
                ELSE [backend EXCEPT !.isOpen = FALSE]
  /\ cache' = IF cacheType = "memory" THEN MemoryClear(cache) ELSE cache
  /\ written' = IF cacheType = "memory" THEN [s \in Sigs |-> NoEntry]
                ELSE written
  /\ last' = NoLast
  /\ UNCHANGED << limiter, timer, peer, recentEvents, scan, quote, gateway, durable, answer, numEndpoints, cacheType, now, currentIndex, healthStatus,
                  metrics, calls, accepted, executed >>

\* BettingToolHandler.initialize(), that is PaymentService.initialize(),
\* that is paymentCache.connect(): RedisCache opens its client if it is not
\* open; MemoryCache does nothing (its cleanup interval is set by the
\* constructor only)
Initialize ==
  /\ backend' = IF cacheType = "redis"
                THEN [backend EXCEPT !.isOpen = TRUE]
                ELSE backend
  /\ last' = NoLast
  /\ UNCHANGED << limiter, timer, peer, recentEvents, scan, quote, gateway, durable, answer, written, numEndpoints, cacheType, now, currentIndex, healthStatus,
                  metrics, calls, accepted, executed, cache >>

\* The timer of startHealthCheck probing one endpoint with getSlot
Probe ==
  /\ \E e \in Endpoints(numEndpoints), alive \in BOOLEAN :
       /\ healthStatus' = IF alive THEN markHealthy(healthStatus, e)
                          ELSE markUnhealthy(healthStatus, e)
       /\ calls' = [d \in Calls |-> NoteHealed(d, alive)]
  /\ last' = NoLast
  /\ UNCHANGED << backend, limiter, timer, peer, recentEvents, scan, quote, gateway, durable, answer, written, numEndpoints, cacheType, now, cache, currentIndex, metrics,
                  accepted, executed >>

\* The interval of MemoryCache running cleanup(), until disconnect() clears it
CacheCleanup ==
  /\ cacheType = "memory" /\ backend.cleanupInterval
  /\ cache' = MemoryCleanup(cache, now)
  /\ last' = NoLast
  /\ UNCHANGED << backend, limiter, timer, peer, recentEvents, scan, quote, gateway, durable, answer, written, numEndpoints, cacheType, now, currentIndex, healthStatus,
                  metrics, calls, accepted, executed >>

\* The clock advances to a later instant
Tick ==
  /\ \E t \in Instants : t > now /\ now' = t
  /\ last' = NoLast
  /\ UNCHANGED << backend, limiter, timer, peer, recentEvents, scan, quote, gateway, durable, answer, written, numEndpoints, cacheType, cache, currentIndex, healthStatus,
                  metrics, calls, accepted, executed >>

\* Calls made one after the other on one call path, while the clock
\* advances and the cache is swept
Next ==
  \/ CallUnpaid("c1")
  \/ CallVerify("c1")
  \/ LookupReply("c1")
  \/ RpcStart("c1")
  \/ RpcAnswer("c1")
  \/ FetchReturn("c1")
  \/ TransferCheck("c1")
  \/ VerifyReturn("c1")
  \/ HandlerCatch("c1")
  \/ ExecuteTool("c1")
  \/ HealthCheckTool("c1")
  \/ HandlerReturn("c1")
  \/ CacheCleanup
  \/ Tick

Spec == Init /\ [][Next]_vars

\* Calls made one after the other while the server is shut down and
\* initialized again
RestartSigs == {"sPaid"}
CallRestart(c) == CallVerifyOn(c, Callers, RestartSigs, PricedTools, {1})

NextRestart ==
  \/ CallRestart("c1")
  \/ LookupReply("c1")
  \/ RpcStart("c1")
  \/ RpcAnswer("c1")
  \/ FetchReturn("c1")
  \/ TransferCheck("c1")
  \/ VerifyReturn("c1")
  \/ HandlerCatch("c1")
  \/ ExecuteTool("c1")
  \/ HandlerReturn("c1")
  \/ Shutdown
  \/ Initialize
  \/ CacheCleanup
  \/ Tick

SpecRestart == Init /\ [][NextRestart]_vars

\* Two call paths racing on the same reference at one instant
RaceSigs == {"sPaid"}
\* a tool that throws on its arguments (executeBet with bet 0) and one that
\* returns
RaceTools == {"executeBet", "analyzeMarket"}
CallRace(c) == CallVerifyOn(c, Callers, RaceSigs, RaceTools, BetAmounts)

NextRace ==
  \/ \E c \in Calls : CallRace(c)
  \/ \E c \in Calls : LookupReply(c)
  \/ \E c \in Calls : RpcStart(c)
  \/ \E c \in Calls : RpcAnswer(c)
  \/ \E c \in Calls : FetchReturn(c)
  \/ \E c \in Calls : TransferCheck(c)
  \/ \E c \in Calls : VerifyReturn(c)
  \/ \E c \in Calls : HandlerCatch(c)
  \/ \E c \in Calls : ExecuteTool(c)
  \/ \E c \in Calls : HandlerReturn(c)

SpecRace == Init /\ [][NextRace]_vars

\* Two call paths over a pool of 1..MaxEndpoints endpoints, one of
\* handleToolCall and one of a direct caller, while the health timer probes
InitRpc == InitWith(1..MaxEndpoints) /\ cacheType = "memory"
RpcSigs == {"sPaid"}
\* the tool that takes a connection of its own after the payment is verified
RpcTools == {"healthCheck"}
RpcCaller == [c \in Calls |-> IF c = "c1" THEN "handler" ELSE "direct"]
CallRpc(c) == CallVerifyOn(c, {RpcCaller[c]}, RpcSigs, RpcTools, BetAmounts)

NextRpc ==
  \/ \E c \in Calls : CallRpc(c)
  \/ \E c \in Calls : LookupReply(c)
  \/ \E c \in Calls : RpcStart(c)
  \/ \E c \in Calls : RpcAnswerNoting(c, TRUE)
  \/ \E c \in Calls : FetchReturn(c)
  \/ \E c \in Calls : TransferCheck(c)
  \/ \E c \in Calls : VerifyReturn(c)
  \/ \E c \in Calls : HandlerCatch(c)
  \/ \E c \in Calls : ExecuteTool(c)
  \/ \E c \in Calls : HealthCheckTool(c)
  \/ \E c \in Calls : HandlerReturn(c)
  \/ Probe

SpecRpc == InitRpc /\ [][NextRpc]_vars

\* Payments at the tolerance boundary of the amount check
CallAmount(c) == CallVerifyOn(c, Callers, AmountSigs, AmountTools, AmountBets)

NextAmount ==
  \/ CallAmount("c1")
  \/ LookupReply("c1")
  \/ RpcStart("c1")
  \/ RpcAnswer("c1")
  \/ FetchReturn("c1")
  \/ TransferCheck("c1")
  \/ VerifyReturn("c1")
  \/ HandlerCatch("c1")
  \/ ExecuteTool("c1")
  \/ HandlerReturn("c1")
  \/ Tick

SpecAmount == Init /\ [][NextAmount]_vars

\* every step of a call in flight is taken in the end: the cache and the
\* ledger answer, the limiter starts the jobs it is handed and the awaits
\* resume
FairAmount ==
  /\ SpecAmount
  /\ WF_vars(LookupReply("c1")) /\ WF_vars(RpcStart("c1"))
  /\ WF_vars(RpcAnswer("c1")) /\ WF_vars(FetchReturn("c1"))
  /\ WF_vars(TransferCheck("c1")) /\ WF_vars(VerifyReturn("c1"))

\* The operations of PaymentCache made on both backends side by side, with
\* the same clock and ttl; no command of the durable backend fails while
\* its client is open, and every one fails once disconnect() has closed it
CacheTools == {"analyzeMarket", "getOdds"}
InitCache == InitWith({1}) /\ cacheType = "memory"

CacheOpSet ==
  /\ Explored
  /\ \E s \in CacheSigs, toolName \in CacheTools, params \in ParamsKinds :
       LET entry == Entry(toolName, ChainTransfer[s].amount, now, params)
       IN /\ cache' = MemorySet(cache, s, entry, now)
          /\ durable' = RedisSet(durable, s, entry, now, ~backend.isOpen)
          /\ written' = [written EXCEPT ![s] = entry]
          /\ answer' = Answer("set", s)
  /\ backend' = [backend EXCEPT !.raced = @ \/ Overtaking]
  /\ last' = NoLast
  /\ UNCHANGED << limiter, timer, peer, recentEvents, scan, quote, gateway, numEndpoints, cacheType, now, currentIndex,
                  healthStatus, metrics, calls, accepted, executed >>

CacheOpGet ==
  /\ Explored
  /\ \E s \in CacheSigs :
       LET m == MemoryGet(cache, s, now)
           r == RedisGet(durable, s, now, ~backend.isOpen)
       IN /\ cache' = m.store
          /\ durable' = r.store
          /\ answer' = [Answer("get", s) EXCEPT !.memory = m.entry,
                                               !.durable = r.entry]
  /\ backend' = [backend EXCEPT !.raced = @ \/ Overtaking]
  /\ last' = NoLast
  /\ UNCHANGED << limiter, timer, peer, recentEvents, scan, quote, gateway, numEndpoints, cacheType, now, currentIndex,
                  healthStatus, metrics, calls, accepted, executed, written >>

CacheOpHas ==
  /\ Explored
  /\ \E s \in CacheSigs :
       LET m == MemoryHas(cache, s, now)
       IN /\ cache' = m.store
          /\ answer' = [Answer("has", s) EXCEPT
                          !.memoryHas = m.result,
                          !.durableHas = RedisHas(durable, s, now, ~backend.isOpen)]
  /\ backend' = [backend EXCEPT !.raced = @ \/ Overtaking]
  /\ last' = NoLast
  /\ UNCHANGED << limiter, timer, peer, recentEvents, scan, quote, gateway, numEndpoints, cacheType, now, currentIndex,
                  healthStatus, metrics, calls, accepted, executed, durable, written >>

CacheOpDelete ==
  /\ Explored
  /\ \E s \in CacheSigs :
       /\ cache' = MemoryDelete(cache, s)
       /\ durable' = RedisDelete(durable, s, ~backend.isOpen)
       /\ written' = [written EXCEPT ![s] = NoEntry]
       /\ answer' = Answer("delete", s)
  /\ backend' = [backend EXCEPT !.raced = @ \/ Overtaking]
  /\ last' = NoLast
  /\ UNCHANGED << limiter, timer, peer, recentEvents, scan, quote, gateway, numEndpoints, cacheType, now, currentIndex,
                  healthStatus, metrics, calls, accepted, executed >>

\* PaymentCache.clear(): MemoryCache empties its map in the call;
\* RedisCache sends KEYS and awaits the list, and with keys listed its DEL
\* follows in a later turn
CacheOpClear ==
  /\ Explored
  /\ \E keys \in {RedisKeys(durable, now, ~backend.isOpen)} :
       /\ keys # {} => Len(backend.clearing) < MaxClears
       /\ backend' = [backend EXCEPT
                        !.raced = @ \/ Overtaking,
                        !.clearing = IF keys = {} THEN @ ELSE Append(@, keys)]
  /\ cache' = MemoryClear(cache)
  /\ written' = [s \in Sigs |-> NoEntry]
  /\ answer' = Answer("clear", NoSig)
  /\ last' = NoLast
  /\ UNCHANGED << limiter, timer, peer, recentEvents, scan, quote, gateway, numEndpoints, cacheType, now, currentIndex,
                  healthStatus, metrics, calls, accepted, executed, durable >>

\* RedisCache.clear goes on after `await this.client.keys`: DEL is sent
\* for the keys that were listed, whatever they hold by now
CacheOpClearDel ==
  /\ backend.clearing # << >>
  /\ durable' = RedisDel(durable, Head(backend.clearing), ~backend.isOpen)
  /\ backend' = [backend EXCEPT !.clearing = Tail(@)]
  /\ last' = NoLast
  /\ UNCHANGED << limiter, timer, peer, recentEvents, scan, quote, gateway, numEndpoints, cacheType, now, currentIndex,
                  healthStatus, metrics, calls, accepted, executed, cache,
                  written, answer >>

\* PaymentCache.disconnect(): MemoryCache clears its cleanup interval and
\* empties its map; RedisCache closes its client, and its keys stay stored
CacheOpDisconnect ==
  /\ Explored
  /\ backend' = [backend EXCEPT !.isOpen = FALSE, !.cleanupInterval = FALSE]
  /\ cache' = MemoryClear(cache)
  /\ written' = [s \in Sigs |-> NoEntry]
  /\ answer' = Answer("disconnect", NoSig)
  /\ last' = NoLast
  /\ UNCHANGED << limiter, timer, peer, recentEvents, scan, quote, gateway, numEndpoints, cacheType, now, currentIndex,
                  healthStatus, metrics, calls, accepted, executed, durable >>

\* PaymentCache.connect(): RedisCache opens its client if it is not open;
\* MemoryCache does nothing
CacheOpConnect ==
  /\ Explored
  /\ backend' = [backend EXCEPT !.isOpen = TRUE]
  /\ answer' = [Answer("connect", NoSig) EXCEPT !.sinceClosed = answer.sinceClosed]
  /\ last' = NoLast
  /\ UNCHANGED << limiter, timer, peer, recentEvents, scan, quote, gateway, numEndpoints, cacheType, now, currentIndex,
                  healthStatus, metrics, calls, accepted, executed, durable,
                  cache, written >>

NextCache ==
  \/ CacheOpSet
  \/ CacheOpGet
  \/ CacheOpHas
  \/ CacheOpDelete
  \/ CacheOpClear
  \/ CacheOpClearDel
  \/ CacheOpDisconnect
  \/ CacheOpConnect
  \/ CacheCleanup
  \/ Tick

SpecCache == InitCache /\ [][NextCache]_vars

\* scheduleWithRetry(fn, maxRetries) called on a pool of 1..MaxEndpoints
\* endpoints while the health timer runs
defaultMaxRetries == 3
RetryCounts == 0..defaultMaxRetries

RetryAgainMut(i, maxRetries) == i <= maxRetries

\* the loop condition of scheduleWithRetry, i being the iterations made
RetryAgain(i, maxRetries) == i < maxRetries

\* entry of scheduleWithRetry; without an iteration it throws lastError as
\* declared (undefined); otherwise the job of schedule(fn) is handed to the
\* limiter
ScheduleWithRetryCall ==
  /\ gateway.pc \in {"idle", "done"}
  /\ \E maxRetries \in RetryCounts :
       gateway' = IF RetryAgain(0, maxRetries)
                  THEN [IdleGateway EXCEPT !.pc = "retry",
                                           !.maxRetries = maxRetries]
                  ELSE [IdleGateway EXCEPT !.pc = "done",
                                           !.maxRetries = maxRetries,
                                           !.result = "threw",
                                           !.value = IdleGateway.lastError]
  /\ last' = NoLast
  /\ UNCHANGED << backend, limiter, timer, peer, recentEvents, scan, numEndpoints, cacheType, now, cache, currentIndex,
                  healthStatus, metrics, calls, accepted, executed, durable,
                  answer, written, quote >>

\* the limiter starts the job of schedule(fn): getConnection picks a
\* connection and the job awaits fn(connection)
ScheduleWithRetryStart ==
  /\ gateway.pc = "retry"
  /\ LET sel == getConnection(currentIndex, numEndpoints, healthStatus)
     IN /\ currentIndex' = sel.currentIndex
        /\ gateway' = [gateway EXCEPT !.pc = "fn", !.schedules = @ + 1,
                                      !.picked = sel.connection,
                                      !.examined = sel.examined,
                                      !.outcome = "none"]
  /\ last' = NoLast
  /\ UNCHANGED << backend, limiter, timer, peer, recentEvents, scan, numEndpoints, cacheType, now, cache, metrics, accepted,
                  executed, durable, answer, written, quote, healthStatus, calls >>

\* fn(connection) settles: the job of schedule() marks the connection it
\* picked (healthy on a result, unhealthy on a rate-limit or timeout
\* error) and settles in turn, for scheduleWithRetry to go on with
ScheduleWithRetryAnswer ==
  /\ gateway.pc = "fn"
  /\ \E outcome \in RpcOutcomes :
       /\ healthStatus' = scheduleHealth(healthStatus, gateway.picked, outcome)
       /\ calls' = [d \in Calls |-> NoteHealed(d, ~IsRpcError(outcome))]
       /\ gateway' = [gateway EXCEPT !.pc = "settled", !.outcome = outcome]
  /\ last' = NoLast
  /\ UNCHANGED << backend, limiter, timer, peer, recentEvents, scan, numEndpoints, cacheType, now, cache, metrics, accepted,
                  executed, durable, answer, written, quote, currentIndex >>

\* scheduleWithRetry goes on after its schedule() settled: a result is
\* returned at once, an error is kept in lastError and, after the last
\* iteration, thrown; before another iteration the loop waits and hands a
\* new job to the limiter
ScheduleWithRetryResume ==
  /\ gateway.pc = "settled"
  /\ LET g == [gateway EXCEPT !.i = @ + 1]
         failed == [g EXCEPT !.failures = @ + 1, !.lastError = g.outcome]
     IN gateway' =
          IF ~IsRpcError(g.outcome)
          THEN [g EXCEPT !.pc = "done", !.result = "returned",
                         !.value = g.outcome]
          ELSE IF RetryAgain(g.i, g.maxRetries)
          THEN [failed EXCEPT !.pc = "retry"]
          ELSE [failed EXCEPT !.pc = "done", !.result = "threw",
                              !.value = failed.lastError]
  /\ last' = NoLast
  /\ UNCHANGED << backend, limiter, timer, peer, recentEvents, scan, numEndpoints, cacheType, now, cache, metrics, accepted,
                  executed, durable, answer, written, quote, currentIndex,
                  healthStatus, calls >>

NextGateway ==
  \/ ScheduleWithRetryCall
  \/ ScheduleWithRetryStart
  \/ ScheduleWithRetryAnswer
  \/ ScheduleWithRetryResume
  \/ Probe

SpecGateway == InitRpc /\ [][NextGateway]_vars

\* ------------------------------------------------------------- pricing
\* getPaymentRequirement called on its own, for every tool id (one of them
\* without a price of its own) and every kind of params: undefined, null,
\* an object without amount, and bets from 0 to 100 USDC, whole and
\* fractional, among them bets whose fee ends on half a micro-USDC
PriceTools == Tools
WholeBets == {0, 1, 2, 3, 5, 8, 10, 50, 100}
FractionalBets ==
  {1, 7, 25, 40, 75, 125, 333333, 500000, 1234567, 1250275, 1250325,
   2500000, 12345678, 49999975, 99999999}
QuoteAmounts == {b * MicroPerUnit : b \in WholeBets} \cup FractionalBets
PriceParams ==
  {NoParams, NullParams, Args(Missing)} \cup {Args(a) : a \in QuoteAmounts}
\* what the call gives for each of them (computed once)
Quotes ==
  [t \in PriceTools, p \in PriceParams |-> getPaymentRequirement(t, p)]

GetPaymentRequirementCall ==
  /\ \E toolName \in PriceTools, params \in PriceParams :
       quote' = [toolName |-> toolName, params |-> params, asked |-> TRUE,
                 threw |-> Quotes[toolName, params].threw,
                 error |-> Quotes[toolName, params].error,
                 value |-> Quotes[toolName, params].value]
  /\ last' = NoLast
  /\ UNCHANGED << backend, limiter, timer, peer, recentEvents, scan, numEndpoints, cacheType, now, cache, currentIndex,
                  healthStatus, metrics, calls, accepted, executed, durable,
                  answer, written, gateway >>

NextPricing == GetPaymentRequirementCall

SpecPricing == InitCache /\ [][NextPricing]_vars

\* ------------------------------------------------------ transfer parsing
\* extractUSDCTransfer called on its own, and the checks of verifyPayment
\* on what it gave.  A transaction is given by the changes of its accounts,
\* listed in postTokenBalances in this order and in preTokenBalances in the
\* opposite order; an account without a snapshot before the transaction has
\* before = Missing
Change(mint, owner, before, after) ==
  [mint |-> mint, owner |-> owner, before |-> before, after |-> after]
AccountChanges ==
  {Change(UsdcMint, RecipientWallet, Missing, 100000),
   Change(UsdcMint, RecipientWallet, 0, 50000),
   Change(UsdcMint, OtherWallet, 0, 100000),
   Change(UsdcMint, PayerWallet, 500000, 400000),
   Change(UsdcMint, RecipientWallet, 100000, 100000),
   Change(OtherMint, RecipientWallet, 0, 200000)}
MaxAccounts == 3
ScanInputs ==
  UNION {[1..n -> AccountChanges] : n \in 1..MaxAccounts}
ScanTx(accounts) ==
  LET n == Len(accounts)
      HasSnapshot(balance) == balance.uiAmount # Missing
      before == [k \in 1..n |->
                   Bal(n + 1 - k, accounts[n + 1 - k].mint,
                       accounts[n + 1 - k].owner, accounts[n + 1 - k].before)]
  IN Tx(T0, SelectSeq(before, HasSnapshot),
        [k \in 1..n |-> Bal(k, accounts[k].mint, accounts[k].owner,
                            accounts[k].after)])
\* the price the checks are made for
ScanPrice == 100000
\* what the call and the checks give for one of them
Scanned(accounts) ==
  [transfer |-> extractUSDCTransfer(ScanTx(accounts)),
   code |-> CheckTransfer(ScanTx(accounts), ScanPrice).error.code]

ExtractUSDCTransferCall ==
  /\ ~scan.asked
  /\ \E accounts \in ScanInputs :
     \E found \in {Scanned(accounts)} :
       scan' = [asked |-> TRUE, accounts |-> accounts,
                transfer |-> found.transfer, code |-> found.code]
  /\ last' = NoLast
  /\ UNCHANGED << backend, limiter, timer, peer, recentEvents, numEndpoints, cacheType, now, cache, currentIndex,
                  healthStatus, metrics, calls, accepted, executed, durable,
                  answer, written, gateway, quote >>

NextTransfer == ExtractUSDCTransferCall

SpecTransfer == InitCache /\ [][NextTransfer]_vars

\* ---------------------------------------------------------------- monitor
\* The monitor on its own: recordVerification called over and over.  The
\* argument combinations (success, fromCache, amount in USDC, FZero = omitted)
\* come round in a fixed cycle which the first call may enter anywhere.
MonitorArgs ==
  << <<TRUE, FALSE, FZero>>, <<TRUE, TRUE, FZero>>, <<FALSE, FALSE, FZero>>,
     <<TRUE, FALSE, Number(50000)>>, <<FALSE, TRUE, FZero>>,
     <<TRUE, TRUE, Number(259999)>>, <<FALSE, FALSE, Number(50000)>>,
     <<FALSE, TRUE, Number(100000)>> >>
ArgsOf(event) ==
  CHOOSE k \in 1..Len(MonitorArgs) :
    MonitorArgs[k] = <<event.success, event.fromCache, event.amount>>
RecordVerificationCall ==
  /\ metrics.totalVerifications < MaxRecorded
  /\ \E k \in 1..Len(MonitorArgs) :
       /\ IF recentEvents = << >> THEN TRUE
          ELSE k = (ArgsOf(recentEvents[Len(recentEvents)]) % Len(MonitorArgs)) + 1
       /\ metrics' = recordVerification(metrics, MonitorArgs[k][1],
                                        MonitorArgs[k][2], MonitorArgs[k][3])
       /\ recentEvents' =
            pushEvent(recentEvents,
                      Event(MonitorArgs[k][1], MonitorArgs[k][2],
                            MonitorArgs[k][3]))
  /\ last' = NoLast
  /\ UNCHANGED << backend, limiter, timer, peer, scan, numEndpoints, cacheType, now, cache, currentIndex,
                  healthStatus, calls, accepted, executed, durable,
                  answer, written, gateway, quote >>

\* PaymentMonitor.reset
MonitorReset ==
  /\ metrics' = InitMetrics
  /\ recentEvents' = << >>
  /\ last' = NoLast
  /\ UNCHANGED << backend, limiter, timer, peer, scan, numEndpoints, cacheType, now, cache, currentIndex,
                  healthStatus, calls, accepted, executed, durable,
                  answer, written, gateway, quote >>

NextMonitor == RecordVerificationCall \/ MonitorReset

SpecMonitor == InitCache /\ [][NextMonitor]_vars

\* ------------------------------------------------------- server processes
\* Two server processes over the same ledger, each with its own
\* PaymentService (MemoryCache, monitor, RPCManager with its timer and
\* limiter, calls in flight).  The variables cache, backend, metrics,
\* recentEvents, calls, currentIndex, healthStatus, timer, limiter and
\* gateway are those of the process in focus; peer holds those of the other
\* one, and changing focus exchanges them.  accepted and executed are
\* histories over both.
SwitchProcessMut ==
  /\ peer' = [cache |-> cache, metrics |-> metrics, calls |-> calls,
              currentIndex |-> currentIndex, healthStatus |-> healthStatus,
              recentEvents |-> recentEvents, backend |-> backend,
              timer |-> timer, limiter |-> limiter, gateway |-> gateway]
  /\ recentEvents' = peer.recentEvents
  /\ backend' = peer.backend
  /\ cache' = cache
  /\ metrics' = peer.metrics
  /\ calls' = peer.calls
  /\ currentIndex' = peer.currentIndex
  /\ healthStatus' = peer.healthStatus
  /\ timer' = peer.timer
  /\ limiter' = peer.limiter
  /\ gateway' = peer.gateway
  /\ last' = NoLast
  /\ UNCHANGED << scan, quote, durable, answer, written,
                  numEndpoints, cacheType, now, accepted, executed >>
SwitchProcess ==
  /\ peer' = [cache |-> cache, metrics |-> metrics, calls |-> calls,
              currentIndex |-> currentIndex, healthStatus |-> healthStatus,
              recentEvents |-> recentEvents, backend |-> backend,
              timer |-> timer, limiter |-> limiter, gateway |-> gateway]
  /\ recentEvents' = peer.recentEvents
  /\ backend' = peer.backend
  /\ cache' = peer.cache
  /\ metrics' = peer.metrics
  /\ calls' = peer.calls
  /\ currentIndex' = peer.currentIndex
  /\ healthStatus' = peer.healthStatus
  /\ timer' = peer.timer
  /\ limiter' = peer.limiter
  /\ gateway' = peer.gateway
  /\ last' = NoLast
  /\ UNCHANGED << scan, quote, durable, answer, written,
                  numEndpoints, cacheType, now, accepted, executed >>

InitProcesses == Init /\ cacheType = "memory"

NextProcesses ==
  \/ CallRace("c1")
  \/ LookupReply("c1")
  \/ RpcStart("c1")
  \/ RpcAnswer("c1")
  \/ FetchReturn("c1")
  \/ TransferCheck("c1")
  \/ VerifyReturn("c1")
  \/ HandlerCatch("c1")
  \/ ExecuteTool("c1")
  \/ HandlerReturn("c1")
  \/ SwitchProcess

SpecProcesses == InitProcesses /\ [][NextProcesses]_vars

\* ------------------------------------------------------ health-check timer
RECURSIVE Total(_, _)
Total(count, n) == IF n = 0 THEN 0 ELSE count[n - 1] + Total(count, n - 1)

\* the rounds of the health timer running, each with one getSlot in flight
Rounds == Total(timer.waiting, numEndpoints)

\* startHealthCheck: every 30 s setInterval starts a round, whether or not
\* an earlier round is still running (as many at a time as are explored);
\* the round calls getSlot on the first connection and awaits it
HealthCheckFire ==
  /\ Rounds < MaxRounds
  /\ timer' = [timer EXCEPT !.waiting[0] = @ + 1]
  /\ last' = NoLast
  /\ UNCHANGED << backend, limiter, peer, recentEvents, scan, quote, gateway, durable, answer,
                  written, numEndpoints, cacheType, now, cache, currentIndex,
                  healthStatus, metrics, calls, accepted, executed >>

\* the getSlot one round awaits on connection e settles: the round marks
\* the connection healthy on an answer and unhealthy on a throw, and calls
\* getSlot on the next connection, if there is one.  The getSlot of a
\* silent endpoint does not settle, and the round stays where it is
HealthCheckProbeOn(e) ==
  /\ timer.waiting[e] > 0
  /\ timer.mode[e] # "silent"
  /\ LET alive == timer.mode[e] = "answers"
     IN /\ healthStatus' = IF alive THEN markHealthy(healthStatus, e)
                            ELSE markUnhealthy(healthStatus, e)
        /\ calls' = [d \in Calls |-> NoteHealed(d, alive)]
  /\ timer' = [timer EXCEPT !.waiting =
                 [k \in Endpoints(numEndpoints) |->
                    IF k = e THEN timer.waiting[k] - 1
                    ELSE IF k = e + 1 THEN timer.waiting[k] + 1
                    ELSE timer.waiting[k]]]
  /\ last' = NoLast
  /\ UNCHANGED << backend, limiter, peer, recentEvents, scan, quote, gateway, durable, answer,
                  written, numEndpoints, cacheType, now, cache, currentIndex,
                  metrics, accepted, executed >>

HealthCheckProbe == \E e \in Endpoints(numEndpoints) : HealthCheckProbeOn(e)

\* what an endpoint does with a getSlot changes
EndpointModes == {"answers", "fails", "silent"}
EndpointChange ==
  /\ \E e \in Endpoints(numEndpoints), mode \in EndpointModes :
       /\ mode # timer.mode[e]
       /\ timer' = [timer EXCEPT !.mode[e] = mode]
  /\ last' = NoLast
  /\ UNCHANGED << backend, limiter, peer, recentEvents, scan, quote, gateway, durable, answer,
                  written, numEndpoints, cacheType, now, cache, currentIndex,
                  healthStatus, metrics, calls, accepted, executed >>

\* call traffic: the job of a schedule(fn) starts, getConnection picks a
\* connection and fn(connection) is awaited ...
ScheduleCall ==
  /\ gateway.pc # "fn"
  /\ LET sel == getConnection(currentIndex, numEndpoints, healthStatus)
     IN /\ currentIndex' = sel.currentIndex
        /\ gateway' = [IdleGateway EXCEPT !.pc = "fn",
                                          !.picked = sel.connection]
  /\ last' = NoLast
  /\ UNCHANGED << backend, limiter, timer, peer, recentEvents, scan, quote, durable,
                  answer, written, numEndpoints, cacheType, now, cache,
                  metrics, accepted, executed, healthStatus, calls >>

\* ... and settles, whatever fn meets on the connection: the job marks the
\* connection it picked
ScheduleAnswer ==
  /\ gateway.pc = "fn"
  /\ \E outcome \in RpcOutcomes :
       /\ healthStatus' = scheduleHealth(healthStatus, gateway.picked, outcome)
       /\ calls' = [d \in Calls |-> NoteHealed(d, ~IsRpcError(outcome))]
       /\ gateway' = IdleGateway
  /\ last' = NoLast
  /\ UNCHANGED << backend, limiter, timer, peer, recentEvents, scan, quote, durable,
                  answer, written, numEndpoints, cacheType, now, cache,
                  metrics, accepted, executed, currentIndex >>

NextTimer ==
  \/ ScheduleCall
  \/ ScheduleAnswer
  \/ HealthCheckFire
  \/ HealthCheckProbe
  \/ EndpointChange

SpecTimer == InitRpc /\ [][NextTimer]_vars

\* setInterval fires again and again, and a getSlot that can settle again
\* and again does settle; nothing settles the getSlot of an endpoint that
\* stays silent
FairTimer ==
  /\ SpecTimer
  /\ WF_vars(HealthCheckFire)
  /\ \A e \in Endpoints(MaxEndpoints) :
       SF_vars(e \in Endpoints(numEndpoints) /\ HealthCheckProbeOn(e))

\* ------------------------------------------------------------ rate limiter
\* The RPC calls a process has in flight: jobs of schedule() admitted by the
\* limiter (at most maxConcurrent running, one reservoir token each, minTime
\* apart, the reservoir refilled every reservoirRefreshInterval), the getSlot
\* of the rounds of the health timer and the getSlot of
\* PaymentService.healthCheck.  Every RPC call of the process is one of
\* these here: a transaction fetch is a job of schedule(), and the
\* healthCheck tool calls PaymentService.healthCheck (HealthCheckStart).
Running == Total(limiter.running, numEndpoints)
Checking == Total(limiter.checking, numEndpoints)
InFlightRpc == Running + Rounds + Checking

\* schedule(fn): the job is handed to the limiter
LimiterSchedule ==
  /\ limiter.queued < MaxQueued
  /\ limiter' = [limiter EXCEPT !.queued = @ + 1]
  /\ last' = NoLast
  /\ UNCHANGED << backend, timer, peer, recentEvents, scan, quote, gateway, durable,
                  answer, written, numEndpoints, cacheType, now, cache,
                  metrics, accepted, executed, currentIndex, healthStatus, calls >>

\* whether the limiter lets a queued job start
Admits(l, running) ==
  l.queued > 0 /\ running < maxConcurrent /\ l.tokens > 0 /\ l.spaced

\* the limiter starts a job: getConnection, then fn(connection) is in flight
LimiterStart ==
  /\ Admits(limiter, Running)
  /\ LET sel == getConnection(currentIndex, numEndpoints, healthStatus)
     IN /\ currentIndex' = sel.currentIndex
        /\ limiter' = [limiter EXCEPT !.queued = @ - 1, !.tokens = @ - 1,
                                      !.spaced = FALSE,
                                      !.running[sel.connection] = @ + 1]
  /\ last' = NoLast
  /\ UNCHANGED << backend, timer, peer, recentEvents, scan, quote, gateway, durable,
                  answer, written, numEndpoints, cacheType, now, cache,
                  metrics, accepted, executed, healthStatus, calls >>

\* fn(connection) settles and the job marks the connection
LimiterDone ==
  /\ \E e \in Endpoints(numEndpoints), outcome \in RpcOutcomes :
       /\ limiter.running[e] > 0
       /\ limiter' = [limiter EXCEPT !.running[e] = @ - 1]
       /\ healthStatus' = scheduleHealth(healthStatus, e, outcome)
       /\ calls' = [d \in Calls |-> NoteHealed(d, ~IsRpcError(outcome))]
  /\ last' = NoLast
  /\ UNCHANGED << backend, timer, peer, recentEvents, scan, quote, gateway, durable,
                  answer, written, numEndpoints, cacheType, now, cache,
                  metrics, accepted, executed, currentIndex >>

\* reservoirRefreshInterval has passed
LimiterRefresh ==
  /\ limiter.tokens < reservoir
  /\ limiter' = [limiter EXCEPT !.tokens = reservoir]
  /\ last' = NoLast
  /\ UNCHANGED << backend, timer, peer, recentEvents, scan, quote, gateway, durable,
                  answer, written, numEndpoints, cacheType, now, cache,
                  metrics, accepted, executed, currentIndex, healthStatus, calls >>

\* minTime has passed since the last start
LimiterSpaced ==
  /\ ~limiter.spaced
  /\ limiter' = [limiter EXCEPT !.spaced = TRUE]
  /\ last' = NoLast
  /\ UNCHANGED << backend, timer, peer, recentEvents, scan, quote, gateway, durable,
                  answer, written, numEndpoints, cacheType, now, cache,
                  metrics, accepted, executed, currentIndex, healthStatus, calls >>

\* PaymentService.healthCheck: getConnection, then connection.getSlot()
HealthCheckStart ==
  /\ Checking < MaxHealthChecks
  /\ LET sel == getConnection(currentIndex, numEndpoints, healthStatus)
     IN /\ currentIndex' = sel.currentIndex
        /\ limiter' = [limiter EXCEPT !.checking[sel.connection] = @ + 1]
  /\ last' = NoLast
  /\ UNCHANGED << backend, timer, peer, recentEvents, scan, quote, gateway, durable,
                  answer, written, numEndpoints, cacheType, now, cache,
                  metrics, accepted, executed, healthStatus, calls >>

\* ... which answers or throws; healthCheck marks nothing
HealthCheckDone ==
  /\ \E e \in Endpoints(numEndpoints) :
       /\ limiter.checking[e] > 0
       /\ limiter' = [limiter EXCEPT !.checking[e] = @ - 1]
  /\ last' = NoLast
  /\ UNCHANGED << backend, timer, peer, recentEvents, scan, quote, gateway, durable,
                  answer, written, numEndpoints, cacheType, now, cache,
                  metrics, accepted, executed, currentIndex, healthStatus, calls >>

\* the calls of the limiter, the rounds of the health timer and the
\* healthCheck calls going on side by side
NextLimiter ==
  \/ LimiterSchedule
  \/ LimiterStart
  \/ LimiterDone
  \/ LimiterRefresh
  \/ LimiterSpaced
  \/ HealthCheckFire
  \/ HealthCheckProbe
  \/ EndpointChange
  \/ HealthCheckStart
  \/ HealthCheckDone

InitLimiter == Init /\ cacheType = "memory"

SpecLimiter == InitLimiter /\ [][NextLimiter]_vars

TypeOK ==
  /\ numEndpoints \in 1..MaxEndpoints
  /\ now \in Instants
  /\ currentIndex \in Endpoints(numEndpoints)
  /\ metrics.totalVerifications <= MaxVerifications

\* ================================================================ claims
VerifyCodes ==
  {"INVALID_SIGNATURE", "TRANSACTION_NOT_FOUND", "EXPIRED_PAYMENT",
   "WRONG_TOKEN", "INSUFFICIENT_AMOUNT", "WRONG_RECIPIENT", "REPLAY_ATTACK",
   "RPC_ERROR", "VERIFICATION_TIMEOUT"}

AllUnhealthy == \A e \in Endpoints(numEndpoints) : ~healthStatus[e]

\* C1: for one transaction reference at most one distinct toolName is ever
\* accepted as VALID with cached=false, and every call made after such an
\* acceptance with a different toolName returns REPLAY_ATTACK.
C1_AtMostOneBinding ==
  /\ \A s \in Sigs : Cardinality(accepted[s]) <= 1
  /\ (last.verify /\ last.prior # {} /\ last.toolName \notin last.prior)
        => last.error.code = "REPLAY_ATTACK"

\* C2: once handleToolCall has executed a tool body for a signature, no
\* later handleToolCall carrying the same signature executes a tool body.
C2_SignatureUsedOnce == (last.via = "handler" /\ last.toolRan) => ~last.ranBefore

\* the call has found the entry of its reference: the entry is stored and
\* alive and the read of it did not fail
FoundEntry(call) == call.entryTool # NoTool /\ ~call.readFailed

\* C3 as stated: a verifyPayment call made while the cache entry of its
\* reference is present with its own toolName returns VALID with
\* cached=true and makes no Gateway (RPCManager.schedule) call.
C3_CacheHitShortCircuitsRpc ==
  (last.verify /\ last.entryTool # NoTool /\ last.entryTool = last.toolName)
     => (last.valid /\ last.cached /\ last.rpcCalls = 0)

\* C3 amended: the same, when the read of the entry does not fail: the call
\* makes no Gateway call at any point, from a handler or a direct caller.
C3_CacheHitReadShortCircuitsRpc ==
  /\ (last.verify /\ FoundEntry(last) /\ last.entryTool = last.toolName)
        => (last.valid /\ last.cached /\ last.rpcCalls = 0)
  /\ \A c \in Calls :
        (FoundEntry(calls[c]) /\ calls[c].entryTool = calls[c].toolName)
          => /\ calls[c].rpcCalls = 0
             /\ calls[c].pc \in {"get", "tool", "slot", "reply"}
             /\ calls[c].pc # "get" => calls[c].cached

C3_Witness ==
  /\ last.verify /\ last.via = "direct" /\ last.entryTool = "analyzeMarket"
  /\ ~last.readFailed
  /\ last.toolName = "analyzeMarket" /\ last.sig = "sPaid"
  /\ last.prior = {"analyzeMarket"}
  /\ last.valid /\ last.cached /\ last.rpcCalls = 0

\* C4 as stated: a verifyPayment call for tool B made while its reference
\* is cached for a different tool A fails with REPLAY_ATTACK whose details
\* carry originalTool = A, whatever amount B requires.
C4_ReplayNamesOriginalTool ==
  (last.verify /\ last.entryTool # NoTool /\ last.entryTool # last.toolName)
     => /\ last.error.code = "REPLAY_ATTACK"
        /\ last.error.details.originalTool = last.entryTool

\* C4 amended: the same, when the read of the entry does not fail: what
\* verifyPayment throws, to a handler or a direct caller, is REPLAY_ATTACK
\* naming A.
C4_ReplayReadNamesOriginalTool ==
  /\ (last.verify /\ FoundEntry(last) /\ last.entryTool # last.toolName)
        => /\ last.error.code = "REPLAY_ATTACK"
           /\ last.error.details.originalTool = last.entryTool
  /\ \A c \in Calls :
        (FoundEntry(calls[c]) /\ calls[c].entryTool # calls[c].toolName)
          => /\ calls[c].pc \in {"get", "caught"}
             /\ calls[c].pc = "caught" =>
                  /\ calls[c].error.code = "REPLAY_ATTACK"
                  /\ calls[c].error.details.originalTool = calls[c].entryTool

C4_Witness ==
  /\ last.verify /\ last.sig = "sPaid" /\ ~last.readFailed
  /\ last.entryTool = "analyzeMarket" /\ last.toolName = "getOdds"
  /\ last.expectedAmount = 20000
  /\ last.error.code = "REPLAY_ATTACK"
  /\ last.error.details.originalTool = "analyzeMarket"

\* the step in which handleToolCall runs the tool body for call c
RunsTool(c) == ~calls[c].toolRan /\ calls'[c].toolRan
\* the step in which verifyPayment returns valid to the handleToolCall of c
HandlerGetsValid(c) == calls[c].pc # "tool" /\ calls'[c].pc = "tool"

\* C5: handleToolCall executes the tool body only when verifyPayment
\* returned VALID for that call: the body runs only in the turn that
\* follows the return, for the tool and arguments of the call; when
\* verifyPayment fails the tool body is not executed and the envelope is
\* the structured payment error.
C5_ToolRunsOnlyAfterValid ==
  /\ [](last.via = "handler" =>
          /\ last.toolRan => (last.verify /\ last.valid)
          /\ ~last.valid => /\ ~last.toolRan
                            /\ last.error.kind = "PaymentError"
                            /\ last.envelope = last.error.code)
  /\ [](\A c \in Calls :
          /\ calls[c].toolRan => calls[c].pc \in {"slot", "reply"}
          /\ calls[c].pc = "caught" => calls[c].error.kind = "PaymentError")
  /\ [][\A c \in Calls :
          /\ RunsTool(c) =>
                /\ calls[c].pc = "tool"
                /\ calls'[c].sig = calls[c].sig
                /\ calls'[c].toolName = calls[c].toolName
          /\ HandlerGetsValid(c) =>
                /\ calls[c].pc \in {"get", "record"}
                /\ metrics'.successfulVerifications
                     = metrics.successfulVerifications + 1
          /\ (calls[c].pc = "caught" /\ calls'[c].pc # "caught") =>
                /\ last'.via = "handler" /\ ~last'.toolRan
                /\ last'.envelope = calls[c].error.code
                /\ executed' = executed]_vars

C5_Witness ==
  /\ last.via = "handler" /\ last.verify /\ last.valid /\ ~last.cached
  /\ last.toolRan /\ last.envelope = "success"

\* C6: a tool call without a payment signature yields the PAYMENT_REQUIRED
\* envelope carrying the PaymentRequirement of that tool and arguments; it
\* touches neither the cache nor the Gateway and runs no tool body.
C6_NoSignaturePaymentRequired ==
  (last.via = "handler" /\ last.sig = NoSig)
     => /\ last.envelope = "PAYMENT_REQUIRED"
        /\ last.error.code = "PAYMENT_REQUIRED"
        /\ last.error.details.payment.amount =
             ToolPrice[last.toolName, last.betAmount]
        /\ last.error.details.payment.recipient = RecipientWallet
        /\ last.error.details.payment.usdcMint = UsdcMint
        /\ last.cacheOps = 0 /\ last.rpcCalls = 0 /\ ~last.verify
        /\ ~last.toolRan

C6_Witness ==
  /\ last.via = "handler" /\ last.sig = NoSig
  /\ last.toolName = "executeBet" /\ last.betAmount = 1
  /\ last.envelope = "PAYMENT_REQUIRED"
  /\ last.error.details.payment.amount = 120000

\* C7: verifyPayment on a malformed reference (the empty string included)
\* ends in INVALID_SIGNATURE with no RPC call and no cache read or write:
\* the call, from a handler or a direct caller, throws before its first
\* await, and the step leaves the cache, the backend and the RPC manager as
\* they were.
C7_MalformedRejectedCheaply ==
  /\ []((last.verify /\ last.sig \in BadSigs)
          => /\ last.error.code = "INVALID_SIGNATURE"
             /\ last.rpcCalls = 0 /\ last.cacheOps = 0)
  /\ [](\A c \in Calls :
          (calls[c].verify /\ calls[c].sig \in BadSigs)
            => /\ calls[c].pc = "caught"
               /\ calls[c].error.code = "INVALID_SIGNATURE"
               /\ calls[c].rpcCalls = 0 /\ calls[c].cacheOps = 0)
  /\ [][((last'.verify /\ last'.sig \in BadSigs)
          \/ \E c \in Calls : /\ calls'[c] # calls[c]
                               /\ calls'[c].verify /\ calls'[c].sig \in BadSigs)
           => UNCHANGED << cache, backend, currentIndex, healthStatus >>]_vars

C7_Witness ==
  /\ last.verify /\ last.via = "direct" /\ last.sig = "sEmpty"
  /\ last.error.code = "INVALID_SIGNATURE" /\ last.rpcCalls = 0

\* C8: every verifyPayment call ends in VALID or in one PaymentError whose
\* code is one of the nine verification codes, never in an untyped error,
\* whether it returns to a direct caller or throws to handleToolCall.
C8_TypedOutcome ==
  /\ last.verify =>
       \/ last.valid /\ last.error.kind = "none"
       \/ ~last.valid /\ last.error.kind = "PaymentError"
          /\ last.error.code \in VerifyCodes
  /\ \A c \in Calls :
       /\ calls[c].pc = "caught" =>
            /\ calls[c].error.kind = "PaymentError"
            /\ calls[c].error.code \in VerifyCodes
       /\ calls[c].pc # "caught" => calls[c].error.kind = "none"

C8_Witness ==
  /\ last.verify /\ last.via = "direct" /\ last.sig = "sMalformedMeta"
  /\ last.error.kind = "PaymentError" /\ last.error.code = "RPC_ERROR"

\* C9: when every attempt of a verification is answered by a rate-limit
\* error on all retryAttempts attempts, verifyPayment returns RPC_ERROR.
C9_RateLimitedIsRpcError ==
  (last.verify /\ last.attempts = retryAttempts /\ last.rateLimited # "no")
     => last.error.code = "RPC_ERROR"

\* the step in which the verifyPayment of call c throws, to a direct caller
\* or to the catch of handleToolCall
VerifyThrows(c) ==
  /\ calls[c].pc \in VerifyPcs
  /\ \/ calls'[c].pc = "caught"
     \/ calls'[c].pc = "idle" /\ last'.verify /\ ~last'.valid

\* C10 as stated: after a verification whose retryAttempts attempts were
\* all answered by rate-limit errors, every configured endpoint is marked
\* unhealthy, for any number of configured endpoints: it is when the
\* verification ends, whatever the timer and the other calls did meanwhile.
C10_AllEndpointsUnhealthy ==
  [][\A c \in Calls :
       (/\ VerifyThrows(c) /\ calls[c].i = retryAttempts
        /\ calls[c].rateLimited # "no")
          => AllUnhealthy']_vars

\* C10 amended: the same, for at most retryAttempts configured endpoints
\* and when no endpoint was marked healthy during the verification.
C10_AllUnhealthyUpToRetryAttempts ==
  [][\A c \in Calls :
       (/\ VerifyThrows(c) /\ calls[c].i = retryAttempts
        /\ calls[c].rateLimited = "all" /\ numEndpoints <= retryAttempts)
          => AllUnhealthy']_vars

C10_Witness ==
  /\ last.verify /\ last.via = "direct"
  /\ last.attempts = retryAttempts /\ last.rateLimited = "all"
  /\ numEndpoints = retryAttempts /\ AllUnhealthy

\* C11: every verifyPayment call terminates when each of its RPC calls
\* returns or fails (and the cache answers): a call in verification leaves
\* it in the end; and it issues at most retryAttempts Gateway fetches,
\* whatever the answers (transaction, empty result, error) are: a call about
\* to start a fetch has made fewer than retryAttempts, and a call in flight
\* or returned at most retryAttempts.
C11_AtMostRetryAttemptsFetches ==
  /\ [](\A c \in Calls : calls[c].pc = "rpc" => calls[c].rpcCalls < retryAttempts)
  /\ [](\A c \in Calls : calls[c].rpcCalls <= retryAttempts)
  /\ [](last.verify => last.rpcCalls <= retryAttempts)
  /\ \A c \in Calls :
        (calls[c].pc \in VerifyPcs) ~> (calls[c].pc \notin VerifyPcs)

C11_Witness ==
  /\ last.verify /\ last.rpcCalls = retryAttempts /\ last.rateLimited = "no"
  /\ last.valid /\ ~last.cached

\* The decimal amount, in micro-USDC, that the recorded transaction of a
\* reference pays (its recipient account starts from zero)
Paid(s) == Chain(s).postTokenBalances[2].uiAmount

\* the call that just returned fetched its transaction and took it through
\* the age check and the transfer extraction to the amount check
ReachedAmountCheck ==
  /\ last.verify /\ last.fetched
  /\ Chain(last.sig).blockTime # Missing
  /\ last.checkedAt - Chain(last.sig).blockTime <= maxTransactionAge
  /\ ChainTransfer[last.sig].kind = "transfer"

\* C12: the amount recorded in a CacheEntry is the transferred amount
\* observed on chain and is at least the expectedAmount of the
\* verifyPayment call that wrote the entry.
C12_CachedAmountAtLeastExpected ==
  last.wrote =>
     /\ cache[last.sig].amount = ChainTransfer[last.sig].amount
     /\ ~FLess(cache[last.sig].amount, Number(last.expectedAmount))

\* C13: at the amount check a transfer of exactly expectedAmount -
\* tolerance passes, and a transfer one micro-USDC smaller fails with
\* INSUFFICIENT_AMOUNT whose shortfall is expectedAmount minus the
\* observed amount.
C13_ToleranceBoundary ==
  (ReachedAmountCheck /\ last.sig \in AmountSigs) =>
     /\ Paid(last.sig) = last.expectedAmount - tolerance
           => last.error.code # "INSUFFICIENT_AMOUNT"
     /\ Paid(last.sig) = last.expectedAmount - tolerance - 1
           => /\ last.error.code = "INSUFFICIENT_AMOUNT"
              /\ last.error.details.shortfall =
                    FSub(Number(last.expectedAmount), Number(Paid(last.sig)))

\* the age the transaction of a call had at the call's age check
AgeAtCheck(call) == call.checkedAt - Chain(call.sig).blockTime
Dated(call) ==
  call.verify /\ call.fetched /\ Chain(call.sig).blockTime # Missing

\* C14: a fetched transaction whose block time is exactly maxTransactionAge
\* seconds before the verification time (the instant of the age check)
\* passes the age check; one that is one second older fails with
\* EXPIRED_PAYMENT: no call goes on to the transfer extraction with an
\* older transaction, and the one with the transaction at the boundary does.
C14_AgeBoundary ==
  /\ Dated(last) =>
       /\ AgeAtCheck(last) = maxTransactionAge
             => last.error.code # "EXPIRED_PAYMENT"
       /\ AgeAtCheck(last) = maxTransactionAge + 1
             => last.error.code = "EXPIRED_PAYMENT"
  /\ \A c \in Calls :
       Dated(calls[c]) =>
         /\ AgeAtCheck(calls[c]) = maxTransactionAge
               => calls[c].error.code # "EXPIRED_PAYMENT"
         /\ AgeAtCheck(calls[c]) = maxTransactionAge + 1
               => /\ calls[c].pc = "caught"
                  /\ calls[c].error.code = "EXPIRED_PAYMENT"

C14_Witness ==
  /\ last.verify /\ last.fetched /\ last.sig = "sPaid"
  /\ last.checkedAt - Chain(last.sig).blockTime = maxTransactionAge
  /\ last.valid /\ ~last.cached

\* The checks of verifyPayment as conditions on the inputs of the call that
\* just returned: its reference, what the cache held at its lookup, whether
\* its transaction was fetched, and the fetched transaction.
SyntaxPassed == isValidSignature(SigString(last.sig))
LookupPassed == last.entryTool = NoTool \/ last.readFailed
FetchPassed == last.fetched
AgePassed ==
  /\ Chain(last.sig).blockTime # Missing
  /\ last.checkedAt - Chain(last.sig).blockTime <= maxTransactionAge
ExtractionPassed == ChainTransfer[last.sig].kind = "transfer"
AmountPassed ==
  ~FLess(ChainTransfer[last.sig].amount,
         FSub(Number(last.expectedAmount), Number(tolerance)))
RecipientPassed ==
  ChainTransfer[last.sig].recipient = RecipientWallet

\* the places a call in flight goes through, in the order of the code:
\* from each place, the places its next step may lead to
NextPlaces ==
  [pc \in {"idle", "get", "rpc", "fetch", "answered", "extract", "record",
           "caught", "tool", "slot", "reply"} |->
     CASE pc = "idle" -> {"idle", "get", "caught"}
       [] pc = "get" -> {"rpc", "tool", "caught", "idle"}
       [] pc = "rpc" -> {"fetch"}
       [] pc = "fetch" -> {"answered"}
       [] pc = "answered" -> {"rpc", "extract", "caught", "idle"}
       [] pc = "extract" -> {"record", "caught", "idle"}
       [] pc = "record" -> {"tool", "idle"}
       [] pc = "caught" -> {"idle"}
       [] pc = "tool" -> {"slot", "reply"}
       [] pc = "slot" -> {"reply"}
       [] OTHER -> {"idle"}]

\* C15: verifyPayment applies its checks in the order syntax, cache lookup,
\* transaction fetch, age, transfer extraction, amount, recipient, and the
\* failure it reports is that of the first failing check: the reported
\* check failed and every check before it passed.
C15_FirstFailingCheckReported ==
  /\ [](last.verify =>
     /\ last.error.code = "INVALID_SIGNATURE" => ~SyntaxPassed
     /\ last.error.code = "REPLAY_ATTACK" => SyntaxPassed /\ ~LookupPassed
     /\ last.error.code = "TRANSACTION_NOT_FOUND" =>
          /\ SyntaxPassed /\ LookupPassed
          /\ ~FetchPassed \/ Chain(last.sig).blockTime = Missing
     /\ last.error.code = "EXPIRED_PAYMENT" =>
          /\ SyntaxPassed /\ LookupPassed /\ FetchPassed /\ ~AgePassed
     /\ last.error.code \in {"WRONG_TOKEN", "RPC_ERROR"} =>
          /\ SyntaxPassed /\ LookupPassed /\ FetchPassed /\ AgePassed
          /\ ~ExtractionPassed
     /\ last.error.code = "INSUFFICIENT_AMOUNT" =>
          /\ SyntaxPassed /\ LookupPassed /\ FetchPassed /\ AgePassed
          /\ ExtractionPassed /\ ~AmountPassed
     /\ last.error.code = "WRONG_RECIPIENT" =>
          /\ SyntaxPassed /\ LookupPassed /\ FetchPassed /\ AgePassed
          /\ ExtractionPassed /\ AmountPassed /\ ~RecipientPassed
     /\ (last.valid /\ ~last.cached) =>
          /\ SyntaxPassed /\ LookupPassed /\ FetchPassed /\ AgePassed
          /\ ExtractionPassed /\ AmountPassed /\ RecipientPassed)
  /\ [][\A c \in Calls :
          calls'[c] # calls[c] => calls'[c].pc \in NextPlaces[calls[c].pc]]_vars
  /\ [](\A c \in Calls :
          /\ calls[c].pc = "caught" =>
               /\ calls[c].error.code \in {"INVALID_SIGNATURE", "REPLAY_ATTACK"}
                     => calls[c].rpcCalls = 0
               /\ calls[c].error.code
                     \in {"INSUFFICIENT_AMOUNT", "WRONG_RECIPIENT", "WRONG_TOKEN"}
                     => /\ calls[c].fetched
                        /\ AgeAtCheck(calls[c]) <= maxTransactionAge
          /\ calls[c].pc \in {"extract", "record"} =>
               /\ calls[c].fetched
               /\ Chain(calls[c].sig).blockTime # Missing
               /\ AgeAtCheck(calls[c]) <= maxTransactionAge)

C15_Witness ==
  /\ last.verify /\ last.sig = "sWrongRecipient"
  /\ last.error.code = "WRONG_RECIPIENT"
  /\ FetchPassed /\ AgePassed /\ ExtractionPassed /\ AmountPassed

\* an entry is stored for the reference and get would return it now
EntryLive(s) == EntryToolAt(s) # NoTool

\* C16: a CacheEntry is created once per reference and never changed
\* afterwards: while an entry is present, no step changes its toolName,
\* amount or timestamp or writes it again; it can only disappear.
C16_EntryImmutable ==
  [][\A s \in Sigs :
       EntryLive(s) => (cache'[s] = cache[s] \/ ~cache'[s].present)]_vars

\* the call has passed the checks on its fetched transaction in this step
PassedChecks(c) == calls[c].pc = "extract" /\ calls'[c].pc = "record"

\* C17: two concurrent verifyPayment calls on one reference can both miss
\* the cache, both pass the on-chain checks and both write a CacheEntry,
\* because nothing between the lookup and the write looks at the cache
\* again: a call whose lookup missed and whose transaction passes every
\* check writes its own entry in that step (with the in-process backend),
\* whatever was written since its lookup, and returns VALID, cached=false.
C17_WriteNotGuardedByLookup ==
  /\ [][\A c \in Calls :
          (PassedChecks(c) /\ cacheType = "memory") =>
             /\ calls'[c].wrote
             /\ cache'[calls[c].sig].toolName = calls[c].toolName
             /\ cache'[calls[c].sig].timestamp = now]_vars
  /\ []((/\ last.verify /\ SyntaxPassed /\ LookupPassed /\ FetchPassed
         /\ AgePassed /\ ExtractionPassed /\ AmountPassed /\ RecipientPassed)
           => /\ last.valid /\ ~last.cached
              /\ cacheType = "memory" => last.wrote)

\* the second of two calls returns: when it was entered no call had been
\* accepted for the reference (so both lookups came before both writes),
\* both calls were accepted and both wrote
C17_Witness ==
  /\ cacheType = "memory"
  /\ last.verify /\ last.sig = "sPaid" /\ last.prior = {}
  /\ last.valid /\ ~last.cached /\ last.wrote
  /\ accepted["sPaid"] = {"analyzeMarket", "executeBet"}
  /\ cache["sPaid"].toolName = last.toolName

\* the outcome of a verification that finds nothing in the cache, from the
\* checks on the fetched transaction
MissOutcome ==
  IF ~FetchPassed \/ Chain(last.sig).blockTime = Missing
  THEN "TRANSACTION_NOT_FOUND"
  ELSE IF ~AgePassed THEN "EXPIRED_PAYMENT"
  ELSE IF ChainTransfer[last.sig].kind = "throw" THEN "RPC_ERROR"
  ELSE IF ~ExtractionPassed THEN "WRONG_TOKEN"
  ELSE IF ~AmountPassed THEN "INSUFFICIENT_AMOUNT"
  ELSE IF ~RecipientPassed THEN "WRONG_RECIPIENT"
  ELSE "VALID"

\* C18: with the durable backend a failing cache read counts as a miss and
\* a failing cache write is swallowed: a verifyPayment call whose cache
\* read or write failed ends as it would after a cache miss, never in an
\* error of the cache: the failing read resolves to no entry and the call
\* goes on to fetch, the failing write leaves the call to return VALID.
C18_CacheFailureIsMiss ==
  /\ []((last.verify /\ (last.readFailed \/ last.writeFailed))
          => /\ last.error.code = MissOutcome
             /\ ~last.cached
             /\ last.valid <=> MissOutcome = "VALID")
  /\ [](\A c \in Calls :
          /\ (calls[c].pc = "get" /\ calls[c].readFailed)
                => calls[c].got = NoEntry
          /\ (calls[c].readFailed \/ calls[c].writeFailed)
                => /\ ~calls[c].cached
                   /\ calls[c].error.code # "REPLAY_ATTACK"
          /\ calls[c].writeFailed
                => calls[c].pc \in {"record", "tool", "slot", "reply"})
  /\ [][\A c \in Calls :
          (calls[c].pc = "get" /\ calls[c].readFailed) =>
             (calls'[c] = calls[c] \/ calls'[c].pc = "rpc")]_vars

\* the read fails while an entry written for another tool is in the cache
C18_Witness ==
  /\ cacheType = "redis" /\ last.verify /\ last.readFailed
  /\ last.prior # {} /\ last.toolName \notin last.prior
  /\ last.valid /\ ~last.cached

\* C19: an entry set at time t with a TTL of ttl seconds (and not deleted
\* or set again since) is returned by get and reported by has of the
\* in-process backend at every time before t + ttl, and is absent (get
\* null, has false) at every time after t + ttl, whether or not the sweep
\* has run in between.
C19_ExpiryBoundary ==
  (answer.op \in {"get", "has"} /\ written[answer.sig].present) =>
     LET expiry == written[answer.sig].timestamp + ttl IN
     /\ answer.at < expiry =>
          /\ answer.op = "get" => answer.memory = written[answer.sig]
          /\ answer.op = "has" => answer.memoryHas
     /\ answer.at > expiry =>
          /\ answer.op = "get" => answer.memory = NoEntry
          /\ answer.op = "has" => ~answer.memoryHas

\* a get after the expiry finds the item still in the map (no sweep and no
\* get has removed it) and answers null
C19_Witness ==
  /\ answer.op = "get" /\ written[answer.sig].present
  /\ answer.at > written[answer.sig].timestamp + ttl
  /\ answer.memory = NoEntry
  /\ durable[answer.sig].present

\* C20 as stated: to every get, set, has and delete, made at the same
\* times on both with no failing command (the client of the durable
\* backend open), the in-process and the durable backend answer the same.
C20_BackendsAgree ==
  Undisturbed =>
     /\ answer.memory = answer.durable
     /\ answer.memoryHas = answer.durableHas

\* C20 amended: the same, for entries whose fields JSON keeps unchanged.
C20_BackendsAgreeOnJson ==
  (Undisturbed /\ answer.op \in {"get", "set", "has", "delete"}
   /\ written[answer.sig].params # "date") =>
     /\ answer.memory = answer.durable
     /\ answer.memoryHas = answer.durableHas

\* both backends return the entry at the very instant of its expiry
C20_Witness ==
  /\ answer.op = "get" /\ written[answer.sig].params = "json"
  /\ answer.at = written[answer.sig].timestamp + ttl
  /\ answer.memory = written[answer.sig]
  /\ answer.durable = answer.memory

\* the step just taken started a schedule() of the scheduleWithRetry call:
\* its job took a connection from getConnection
ScheduleStep == gateway'.schedules = gateway.schedules + 1

SomeHealthy == \E e \in Endpoints(numEndpoints) : healthStatus[e]

\* the healthy endpoint nearest to index in cyclic order
FirstHealthyFrom(index) ==
  CHOOSE e \in Endpoints(numEndpoints) :
    /\ healthStatus[e]
    /\ \A f \in Endpoints(numEndpoints) :
         healthStatus[f] =>
           (e - index) % numEndpoints <= (f - index) % numEndpoints

\* C21: getConnection returns a configured endpoint after looking at no more
\* endpoints than are configured; when some endpoint is marked healthy it
\* returns the first healthy one in cyclic order from the round-robin index,
\* and when none is it still returns one.
C21_FirstHealthyInCyclicOrder ==
  [][ScheduleStep =>
       /\ gateway'.picked \in Endpoints(numEndpoints)
       /\ gateway'.examined \in 1..numEndpoints
       /\ SomeHealthy => /\ healthStatus[gateway'.picked]
                         /\ gateway'.picked = FirstHealthyFrom(currentIndex)]_vars

\* an unhealthy endpoint was passed over for a healthy one further on
C21_Witness ==
  /\ gateway.schedules > 0 /\ gateway.outcome = "tx"
  /\ gateway.examined = 3 /\ numEndpoints = 4
  /\ \E e \in Endpoints(numEndpoints) : ~healthStatus[e]

\* the step in which scheduleWithRetry goes on after its schedule() settled
ScheduleResumes == gateway.pc = "settled" /\ gateway'.pc # "settled"

\* C22: scheduleWithRetry(fn, maxRetries) makes at most maxRetries calls of
\* schedule; it returns the result of the first one that succeeds and makes
\* no further one; when all maxRetries fail it throws the error of the last;
\* it never returns anything for a failed call.
C22_RetryBoundedLastErrorThrown ==
  /\ [](gateway.schedules <= gateway.maxRetries)
  /\ [](gateway.pc = "done" => gateway.result \in {"returned", "threw"})
  /\ [](gateway.result = "returned" =>
          /\ ~IsRpcError(gateway.outcome) /\ gateway.value = gateway.outcome
          /\ gateway.schedules = gateway.failures + 1)
  /\ [](gateway.result = "threw" =>
          /\ gateway.schedules = gateway.maxRetries
          /\ gateway.failures = gateway.maxRetries
          /\ gateway.maxRetries > 0 =>
               IsRpcError(gateway.outcome) /\ gateway.value = gateway.outcome)
  /\ [][/\ ScheduleStep =>
             /\ gateway.schedules = gateway.failures
             /\ gateway.schedules < gateway.maxRetries
        /\ ScheduleResumes =>
             /\ ~IsRpcError(gateway.outcome) =>
                  /\ gateway'.result = "returned"
                  /\ gateway'.value = gateway.outcome
             /\ IsRpcError(gateway.outcome) =>
                  /\ gateway'.result # "returned"
                  /\ gateway'.lastError = gateway.outcome
                  /\ gateway'.result = "threw" <=>
                       gateway.schedules = gateway.maxRetries]_vars

\* three attempts failed and the timeout of the third is what is thrown
C22_Witness ==
  /\ gateway.result = "threw" /\ gateway.maxRetries = defaultMaxRetries
  /\ gateway.schedules = defaultMaxRetries /\ gateway.value = "eTimeout"

TransientSignature(outcome) ==
  RpcMessage(outcome) \cap {"429", "rate limit", "timeout"} # {}
\* the step just taken is the one in which the call of a schedule() settles
ScheduleSettles == gateway.pc = "fn" /\ gateway'.pc = "settled"

\* C30: a schedule() whose call succeeds marks the endpoint it ran on
\* healthy when the call settles; one that fails with a message containing
\* "429", "rate limit" or "timeout" marks it unhealthy; one that fails
\* otherwise leaves the health map as it was; the schedule changes no other
\* endpoint's health, and none when it picks its endpoint or when
\* scheduleWithRetry goes on after it.
C30_ScheduleMarksOnlyItsEndpoint ==
  [][/\ ScheduleStep => healthStatus' = healthStatus
     /\ ScheduleResumes => healthStatus' = healthStatus
     /\ ScheduleSettles =>
          /\ gateway'.picked = gateway.picked
          /\ ~IsRpcError(gateway'.outcome) =>
               healthStatus' = [healthStatus EXCEPT ![gateway.picked] = TRUE]
          /\ (IsRpcError(gateway'.outcome) /\ TransientSignature(gateway'.outcome)) =>
               healthStatus' = [healthStatus EXCEPT ![gateway.picked] = FALSE]
          /\ (IsRpcError(gateway'.outcome) /\ ~TransientSignature(gateway'.outcome)) =>
               healthStatus' = healthStatus
          /\ \A e \in Endpoints(numEndpoints) \ {gateway.picked} :
               healthStatus'[e] = healthStatus[e]]_vars

\* a rate-limited call marked its endpoint while another stays healthy
C30_Witness ==
  /\ gateway.schedules > 0 /\ gateway.outcome = "e429"
  /\ ~healthStatus[gateway.picked]
  /\ \E e \in Endpoints(numEndpoints) : healthStatus[e]

\* the tool names calculatePrice has a case for
OwnPrice == {"executeBet", "analyzeMarket", "getOdds"}

\* C23 (as stated): getPaymentRequirement never fails, for every tool id and
\* every params value, absent and null params included, and a tool without
\* a price of its own costs 0.01 USDC.
C23_GetPaymentRequirementNeverFails ==
  quote.asked =>
    /\ ~quote.threw
    /\ quote.value.amount >= 0
    /\ quote.toolName \notin OwnPrice => quote.value.amount = 10000

\* C24: the price of executeBet with amount a is 0.10 + 0.02 * a quantized
\* once to 6 decimals: a count n of micro-USDC nearest to 100000 + a / 50
\* micro-USDC (a in micro-USDC), which is 100000 + 20000 * a for a whole
\* number a of USDC; analyzeMarket costs 0.05 and getOdds 0.02 USDC whatever
\* the params.
C24_PriceQuantizedOnce ==
  (quote.asked /\ ~quote.threw) =>
    /\ quote.toolName = "analyzeMarket" => quote.value.amount = 50000
    /\ quote.toolName = "getOdds" => quote.value.amount = 20000
    /\ (quote.toolName = "executeBet" /\ quote.params.amount # Missing) =>
         LET n == quote.value.amount
             exact == 10000000 + 2 * quote.params.amount  \* in 1/100 micro
         IN /\ 100 * n - exact \in (0 - 50)..50
            /\ quote.params.amount % MicroPerUnit = 0 =>
                 n = 100000 + 20000 * (quote.params.amount \div MicroPerUnit)
    /\ (quote.toolName = "executeBet" /\ quote.params.amount = Missing) =>
         quote.value.amount = 100000

C24_Witness ==
  /\ quote.asked /\ quote.toolName = "executeBet"
  /\ quote.params = Args(100 * MicroPerUnit)
  /\ quote.value.amount = 2100000

\* C25 (as stated): every PaymentError verifyPayment throws, for every
\* failure kind and every path that leads to it, carries a code and a
\* details payload that is not absent.
C25_EveryErrorHasDetails ==
  (last.verify /\ ~last.valid) =>
    /\ last.error.kind = "PaymentError"
    /\ last.error.code \in VerifyCodes
    /\ last.error.details.present

\* C26 (as stated): a verification whose RPC calls time out on every retry
\* attempt ends in VERIFICATION_TIMEOUT, and it makes no more than
\* retryAttempts attempts.
C26_TimeoutsSurfaceAsVerificationTimeout ==
  /\ last.verify => last.rpcCalls <= retryAttempts
  /\ (last.verify /\ last.rpcCalls > 0 /\ last.timedOut = "all") =>
       last.error.code = "VERIFICATION_TIMEOUT"

\* C27 (as stated): whenever verifyPayment returns VALID, from the cache or
\* not, the amount the reference transferred on chain is at least the
\* expectedAmount of that very call minus the tolerance.
C27_ValidMeansAmountCovered ==
  (last.verify /\ last.valid) =>
    /\ ChainTransfer[last.sig].kind = "transfer"
    /\ ~AmountBelowRequired(ChainTransfer[last.sig].amount, last.expectedAmount)

\* a step of some verifyPayment call, and the entries of the replay cache
\* the step changed
VerifyStep == last'.verify \/ calls' # calls
ChangedEntries == {s \in Sigs : cache'[s] # cache[s]}
\* the step is the one in which a call has passed every check, and s is
\* the entry it wrote, with the params of its caller (the durable backend
\* keeps no member for params that are undefined)
WroteVerified(s) ==
  \E c \in Calls :
    /\ PassedChecks(c) /\ calls'[c].wrote
    /\ s = calls[c].sig
    /\ cache'[s].present /\ cache'[s].toolName = calls[c].toolName
    /\ cache'[s].expiresAt = now + ttl
    /\ cache'[s].params = IF calls[c].via = "handler" THEN "json"
                          ELSE IF cacheType = "memory" THEN "undefined"
                          ELSE "omitted"
\* a call that has passed every check and called paymentCache.set does
\* nothing more than record the verification and return VALID with
\* cached = false
ReturnsVerified(c) ==
  (calls[c].pc = "record" /\ calls'[c] # calls[c]) =>
     /\ cache' = cache
     /\ \/ calls'[c].pc = "tool" /\ ~calls'[c].cached
        \/ /\ calls'[c].pc = "idle" /\ last'.verify /\ last'.valid
           /\ ~last'.cached /\ last'.sig = calls[c].sig
\* the lookup of the step dropped s, an entry that had expired
DroppedExpired(s) ==
  /\ cacheType = "memory"
  /\ cache[s].present /\ now > cache[s].expiresAt
  /\ cache'[s] = NoEntry
  /\ \E c \in Calls : calls[c].pc = "idle" /\ calls'[c].pc = "get"
                        /\ calls'[c].sig = s

\* C28 (as stated): verifyPayment changes the replay cache only by writing
\* the entry of its reference as the last step of a verification that
\* returns VALID with cached = false; a failing call and a cache hit leave
\* the cache unchanged.
C28_OnlyVerifiedWritesChangeCache ==
  [][VerifyStep => \A s \in ChangedEntries : WroteVerified(s)]_vars

\* C28 (amended): verifyPayment writes an entry only as the last step of a
\* verification that returns VALID with cached = false; besides that it
\* changes the cache only by dropping the already expired entry of the
\* reference it looks up (in-process backend).  A failing call and a cache
\* hit write nothing and leave every entry that has not expired as it was,
\* expiry included.
C28_OnlyVerifiedWritesOrExpiredDrops ==
  /\ [][VerifyStep =>
          /\ \A s \in ChangedEntries : WroteVerified(s) \/ DroppedExpired(s)
          /\ \A c \in Calls : ReturnsVerified(c)
          /\ (\A c \in Calls : ~PassedChecks(c)) =>
               \A s \in Sigs : (cache[s].present /\ now <= cache[s].expiresAt)
                                  => cache'[s] = cache[s]]_vars
  /\ []((last.verify /\ (~last.valid \/ last.cached))
          => ~last.wrote /\ ~last.writeFailed /\ last.cacheOps <= 1)
  /\ [](\A c \in Calls :
          (calls[c].pc = "caught" \/ calls[c].cached)
            => ~calls[c].wrote /\ ~calls[c].writeFailed
               /\ calls[c].cacheOps <= 1)

\* a call failed after its lookup dropped the expired entry of a reference
\* verified before
C28_Witness ==
  /\ last.verify /\ ~last.valid /\ last.error.code = "EXPIRED_PAYMENT"
  /\ cacheType = "memory" /\ accepted[last.sig] # {}
  /\ ~cache[last.sig].present

\* The call just returned was for a reference verified before whose cache
\* entry had expired when the call looked it up: the entry set last for the
\* reference, and not removed by a disconnect since, was past its expiry
\* (whether or not the sweep or a lookup had dropped it)
EntryExpiredAtLookup ==
  last.verify /\ last.prior # {} /\ last.expiredEntry

\* C29 (as stated): once the cache entry of a verified reference has
\* expired, every later call for that reference, for any tool, ends in
\* EXPIRED_PAYMENT and never in VALID.
C29_AfterExpiryExpiredPayment ==
  EntryExpiredAtLookup => last.error.code = "EXPIRED_PAYMENT"

\* C29 (amended): once the cache entry of a verified reference has expired,
\* no later call for that reference, for any tool, ends in VALID: it ends
\* in EXPIRED_PAYMENT when the transaction is fetched, and in
\* TRANSACTION_NOT_FOUND when all retryAttempts lookups failed to fetch it.
C29_AfterExpiryNeverValid ==
  EntryExpiredAtLookup =>
    /\ ~last.valid
    /\ last.error.code \in {"EXPIRED_PAYMENT", "TRANSACTION_NOT_FOUND"}
    /\ last.fetched => last.error.code = "EXPIRED_PAYMENT"
    /\ ~last.fetched => last.rpcCalls = retryAttempts

C29_Witness ==
  /\ EntryExpiredAtLookup /\ last.error.code = "EXPIRED_PAYMENT"
  /\ last.toolName \notin last.prior
  /\ now > T0 + ttl

\* the failure kinds of the business rules
BusinessCodes ==
  {"EXPIRED_PAYMENT", "WRONG_TOKEN", "INSUFFICIENT_AMOUNT", "WRONG_RECIPIENT"}

\* C33: a call ending in REPLAY_ATTACK makes no Gateway call; a call ending
\* in a business-rule failure has fetched its transaction and makes no
\* Gateway call after the fetch that returned it: no call goes on fetching
\* after a fetch gave a transaction, and the failure is thrown in the turn
\* of the failing check.
C33_BusinessFailuresFailFast ==
  /\ [](last.verify =>
          /\ last.error.code = "REPLAY_ATTACK" => last.rpcCalls = 0
          /\ last.error.code \in BusinessCodes =>
               last.fetched /\ last.rpcCalls \in 1..retryAttempts)
  /\ [](\A c \in Calls :
          /\ calls[c].fetched => calls[c].pc \notin {"rpc", "fetch"}
          /\ calls[c].pc = "caught" =>
               /\ calls[c].error.code = "REPLAY_ATTACK" => calls[c].rpcCalls = 0
               /\ calls[c].error.code \in BusinessCodes => calls[c].fetched)
  /\ [][\A c \in Calls :
          /\ (calls[c].fetched /\ calls'[c].pc # "idle")
                => calls'[c].rpcCalls = calls[c].rpcCalls
          /\ (calls[c].fetched /\ calls'[c].pc = "idle" /\ last'.verify)
                => last'.rpcCalls = calls[c].rpcCalls
          /\ (VerifyThrows(c) /\ calls[c].pc = "answered"
                /\ calls[c].fetched)
                => /\ calls[c].i = calls[c].rpcCalls
                   /\ \/ calls'[c].pc = "caught" /\ calls'[c].fetched
                      \/ last'.fetched /\ last'.rpcCalls = calls[c].rpcCalls]_vars

\* a business failure on a transaction fetched at the second attempt
C33_Witness ==
  /\ last.verify /\ last.error.code = "INSUFFICIENT_AMOUNT"
  /\ last.fetched /\ last.rpcCalls = 2

\* C34 (as stated): a fetched transaction without a recorded timestamp is
\* rejected with EXPIRED_PAYMENT, like one older than maxTransactionAge.
C34_AbsentTimestampIsExpired ==
  (last.verify /\ last.fetched /\ Chain(last.sig).blockTime = Missing) =>
    last.error.code = "EXPIRED_PAYMENT"

\* the accounts of the transaction just parsed that hold the asset and
\* whose balance strictly increased (no snapshot counts from 0)
Qualifying ==
  {k \in 1..Len(scan.accounts) :
     /\ scan.accounts[k].mint = UsdcMint
     /\ scan.accounts[k].after >
          (IF scan.accounts[k].before = Missing THEN 0
           ELSE scan.accounts[k].before)}
FirstQualifying == CHOOSE k \in Qualifying : \A j \in Qualifying : k <= j

\* C35: extractUSDCTransfer returns the first account, in post-balance
\* order, that holds the asset and whose balance strictly increased, with
\* its delta as amount and its owner as recipient; it returns null, reported
\* as WRONG_TOKEN, exactly when there is none; the amount and recipient
\* checks look at that account only.
C35_FirstIncreasedAccount ==
  scan.asked =>
    /\ Qualifying = {} <=> scan.transfer.kind = "null"
    /\ scan.transfer.kind = "null" <=> scan.code = "WRONG_TOKEN"
    /\ Qualifying # {} =>
         LET first == scan.accounts[FirstQualifying]
             before == IF first.before = Missing THEN FZero
                       ELSE Number(first.before)
         IN /\ scan.transfer.kind = "transfer"
            /\ scan.transfer.recipient = first.owner
            /\ scan.transfer.amount = FSub(Number(first.after), before)
            /\ FLess(FZero, scan.transfer.amount)
            /\ scan.code =
                 IF AmountBelowRequired(scan.transfer.amount, ScanPrice)
                 THEN "INSUFFICIENT_AMOUNT"
                 ELSE IF first.owner # RecipientWallet THEN "WRONG_RECIPIENT"
                 ELSE "VALID"

\* the first increase goes to another owner, a later one to the recipient
C35_Witness ==
  /\ scan.asked /\ Len(scan.accounts) = 3
  /\ Qualifying = {2, 3}
  /\ scan.accounts[2].owner = OtherWallet
  /\ scan.accounts[3].owner = RecipientWallet
  /\ scan.code = "WRONG_RECIPIENT"

\* C36: when every endpoint is marked unhealthy, getConnection returns the
\* endpoint cyclically preceding the round-robin index and leaves the index
\* as it was; the index always stays within 0..N-1.
C36_AllUnhealthyReturnsPreceding ==
  [][/\ currentIndex' \in 0..(numEndpoints - 1)
     /\ (ScheduleStep /\ ~SomeHealthy) =>
          /\ gateway'.picked = (currentIndex + numEndpoints - 1) % numEndpoints
          /\ gateway'.examined = numEndpoints
          /\ currentIndex' = currentIndex]_vars

\* a schedule made with all three endpoints unhealthy, whose error left the
\* health map as it was
C36_Witness ==
  /\ gateway.schedules > 1 /\ gateway.outcome = "eOther"
  /\ numEndpoints = 3 /\ gateway.examined = 3
  /\ \A e \in Endpoints(numEndpoints) : ~healthStatus[e]
  /\ gateway.picked = (currentIndex + 2) % 3

\* C37: after any sequence of recordVerification calls the total equals
\* successes plus failures and equals cache hits plus cache misses, and the
\* recent-events buffer holds at most maxEvents events: the most recent ones,
\* in the order in which they arrived.
C37_CountersAgreeAndBufferKeepsLatest ==
  /\ metrics.totalVerifications
       = metrics.successfulVerifications + metrics.failedVerifications
  /\ metrics.totalVerifications = metrics.cacheHits + metrics.cacheMisses
  /\ Len(recentEvents) <= maxEvents
  /\ Len(recentEvents) = IF metrics.totalVerifications < maxEvents
                         THEN metrics.totalVerifications ELSE maxEvents
  /\ \A i \in 1..Len(recentEvents) :
       recentEvents[i].arrival
         = metrics.totalVerifications - Len(recentEvents) + i
C37_Witness ==
  /\ metrics.totalVerifications = maxEvents + 2
  /\ Len(recentEvents) = maxEvents
  /\ recentEvents[1].arrival = 3
  /\ metrics.failedVerifications > 0
  /\ metrics.cacheHits > 0

\* the counters of the monitor move by one verification with this outcome
CountedOnce(success, fromCache) ==
  /\ metrics'.totalVerifications = metrics.totalVerifications + 1
  /\ metrics'.successfulVerifications
       = metrics.successfulVerifications + (IF success THEN 1 ELSE 0)
  /\ metrics'.failedVerifications
       = metrics.failedVerifications + (IF success THEN 0 ELSE 1)
  /\ metrics'.cacheHits = metrics.cacheHits + (IF fromCache THEN 1 ELSE 0)
  /\ metrics'.cacheMisses = metrics.cacheMisses + (IF fromCache THEN 0 ELSE 1)
\* the step records one verification with this outcome, event included
RecordedOnce(success, fromCache, code) ==
  /\ CountedOnce(success, fromCache)
  /\ metrics'.rpcErrors
       = metrics.rpcErrors + (IF code = "RPC_ERROR" THEN 1 ELSE 0)
  /\ Len(recentEvents') = Len(recentEvents) + 1
  /\ SubSeq(recentEvents', 1, Len(recentEvents)) = recentEvents
  /\ recentEvents'[Len(recentEvents')].success = success
  /\ recentEvents'[Len(recentEvents')].fromCache = fromCache
\* the step in which a verifyPayment call returns valid, to handleToolCall
\* or to a direct caller, and whether it returns cached = true
ReturnsValid ==
  \/ \E c \in Calls : HandlerGetsValid(c)
  \/ last'.verify /\ last'.via = "direct" /\ last'.valid
ReturnsCached ==
  \/ \E c \in Calls : HandlerGetsValid(c) /\ calls'[c].cached
  \/ last'.verify /\ last'.via = "direct" /\ last'.cached
\* the step in which a verifyPayment call throws, and the code it throws
ThrowsError ==
  \/ \E c \in Calls : calls[c].pc # "caught" /\ calls'[c].pc = "caught"
  \/ last'.verify /\ last'.via = "direct" /\ ~last'.valid
ThrownCode ==
  IF last'.verify /\ last'.via = "direct" THEN last'.error.code
  ELSE LET c == CHOOSE d \in Calls :
                  calls[d].pc # "caught" /\ calls'[d].pc = "caught"
       IN calls'[c].error.code

\* C38: every verifyPayment call records exactly one verification event, with
\* success = true exactly when the call returned VALID and fromCache = true
\* exactly when it returned cached = true, and recordRPCError is called only
\* in calls that end in RPC_ERROR; nothing else touches the monitor: the
\* event is recorded in the turn in which verifyPayment returns or throws,
\* and no other step of a call, of the handler or of the server changes the
\* monitor.
C38_OneEventPerVerification ==
  /\ [][IF ReturnsValid
        THEN RecordedOnce(TRUE, ReturnsCached, "VALID")
        ELSE IF ThrowsError
        THEN RecordedOnce(FALSE, FALSE, ThrownCode)
        ELSE metrics' = metrics /\ recentEvents' = recentEvents]_vars
  /\ [][\A c \in Calls :
          /\ (calls[c].pc \in {"tool", "slot", "reply"} /\ calls'[c].pc = "idle")
                => /\ last'.verify /\ last'.valid
                   /\ last'.cached = calls[c].cached
          /\ (calls[c].pc = "caught" /\ calls'[c].pc = "idle")
                => /\ last'.verify /\ ~last'.valid /\ ~last'.cached
                   /\ last'.error = calls[c].error
          /\ HandlerGetsValid(c) => calls'[c].cached = (calls[c].pc = "get")]_vars

C38_Witness ==
  /\ last.verify /\ last.error.code = "RPC_ERROR"
  /\ metrics.rpcErrors = 1 /\ metrics.successfulVerifications = 1
  /\ metrics.totalVerifications = 2 /\ metrics.failedVerifications = 1

\* C39: after a verifyPayment call that returned VALID with cached = false for
\* a transfer of amount x, the monitor's cumulative amount counter has
\* increased by x (the binary64 sum of the counter and x).
C39_AmountCounterGrowsByTransfer ==
  [][\A c \in Calls :
       (calls[c].pc = "record" /\ calls'[c].pc # "record")
         => metrics'.totalAmount
              = FAdd(metrics.totalAmount, calls[c].amount)]_vars

\* C40: with the in-process cache and two server processes, a reference
\* verified for tool A in one process can afterwards be accepted as VALID with
\* cached = false for another tool B in the other process, because each
\* process consults only its own cache: the first verification a process
\* completes, of a reference whose transaction passes every check, returns
\* VALID with cached = false whatever the other process accepted before.
C40_FirstCallOfProcessSeesNoEntry ==
  (/\ last.verify /\ metrics.totalVerifications = 1
   /\ SyntaxPassed /\ (last.rpcCalls > 0 => last.fetched)
   /\ AgePassed /\ ExtractionPassed /\ AmountPassed /\ RecipientPassed)
     => last.valid /\ ~last.cached
\* tool B is accepted in this process after tool A had been accepted in the
\* other one, whose cache holds the entry for A
C40_Witness ==
  /\ last.verify /\ last.sig = "sPaid" /\ last.toolName = "executeBet"
  /\ last.prior = {"analyzeMarket"}
  /\ last.valid /\ ~last.cached
  /\ metrics.totalVerifications = 1
  /\ peer.metrics.successfulVerifications = 1
  /\ peer.cache["sPaid"].present
  /\ peer.cache["sPaid"].toolName = "analyzeMarket"
  /\ cache["sPaid"].toolName = "executeBet"

\* C31 (as stated): whatever the call traffic, an endpoint that is marked
\* unhealthy and answers liveness probes is eventually marked healthy
\* again by the health-check timer (the timer being fair), and an endpoint
\* that fails its probe is marked unhealthy by it.
ProbedEndpoints == Endpoints(MaxEndpoints)
MarkedAs(e, mark) == e < numEndpoints /\ healthStatus[e] = mark
Answers(e) == e < numEndpoints /\ timer.mode[e] = "answers"
C31_TimerHealsAnsweringEndpoints ==
  /\ \A e \in ProbedEndpoints :
       (MarkedAs(e, FALSE) /\ Answers(e))
         ~> (MarkedAs(e, TRUE) \/ ~Answers(e))
  /\ [][\A e \in Endpoints(numEndpoints) :
          (timer'.waiting[e] < timer.waiting[e] /\ timer.mode[e] = "fails")
             => ~healthStatus'[e]]_vars

\* C32: the rate limiter bounds all outgoing calls: in every reachable state
\* the ledger RPC calls in flight (transaction fetches, probes of the health
\* timer and the getSlot of PaymentService.healthCheck) number at most
\* maxConcurrent, and no RPC call is started without consuming a reservoir
\* token.
C32_LimiterBoundsAllRpcCalls ==
  [][/\ InFlightRpc' <= maxConcurrent
     /\ InFlightRpc' > InFlightRpc
          => limiter'.tokens = limiter.tokens - 1]_vars
====
